---- MODULE Spec2Model ----
(***************************************************************************)
(* A model of common-sense-coder, the MCP server that answers find_symbol  *)
(* and symbol_info by driving a language server.                           *)
(*                                                                         *)
(* The module holds several specifications over one set of variables:      *)
(*   SpecSearch  SearchMode::check on bounded strings        (mcp/search)  *)
(*   SpecTokens  TokenLegend::decode and Document::query     (lsp/tokens)  *)
(*   Spec        the tool handlers find_symbol, symbol_info  (mcp/mod)     *)
(*   SpecGuard   the progress task and a waiting tool call   (lsp/progress_guard) *)
(*   SpecTasks   the TaskManager                             (tasks)       *)
(*   SpecMain    main_async and main_inner                   (main)        *)
(*   SpecIo      WriteFork and ReadFork                      (io_intercept) *)
(*   SpecForward wait_for_client and its progress future     (mcp/mod)     *)
(*   SpecWriter  the background writer of a fork             (io_intercept) *)
(*   SpecCancel  shutdown() with a writer and the progress task (tasks)    *)
(*   SpecTee     the select of main_async with a writer      (main)        *)
(*   SpecStartup the start of the progress task and init_lsp (main)        *)
(* SpecGuardFair and SpecMainFair add the scheduling of the runtime.       *)
(* A specification leaves the variables of the others at their idle value. *)
(***************************************************************************)
EXTENDS Integers, Sequences, FiniteSets, TLC

VARIABLES
    \* SpecSearch: the arguments and the result of SearchMode::check
    chkQuery, chkCandidate, chkResult,
    \* SpecTokens: the arguments and results of decode and query
    file_content, tokens, decoded, lookup, found,
    \* the build: TRUE if integer overflow panics (debug), FALSE if it wraps (release)
    overflow_checks,
    \* Spec: one tool call at a time. pc is the handler's position, req the
    \* call's arguments, lsp_sent the LSP requests it has sent, lsp_resp the
    \* server's answer to its first request, locals the local variables of
    \* symbol_info's loop, result what the handler returned, served the outcome
    \* of the call before this one, lsp_answers the server's answers to the
    \* requests of symbol_info_for_token, one entry per candidate token so far
    pc, req, lsp_sent, lsp_resp, locals, result, served, lsp_answers,
    \* SpecGuard: the progress task and a tool call waiting for readiness.
    \* init_parts and running are the task's sets, rdy and evt the values of the
    \* two watch channels, evt_unseen whether the event stream of the waiting
    \* call has a change to take, progress the notification received last,
    \* progress_task the task's result once it has ended, lease the guard
    \* that wait() returned, begun the tokens whose Begin the task has accepted
    init_parts, running, rdy, evt, evt_unseen, progress, progress_task, lease, begun,
    \* SpecTasks: the TaskManager. spawned holds the names of the tasks that
    \* run, finished the results of the tasks that have completed and are not
    \* joined yet, in the order of completion, joined the results join_next has
    \* handed out, cancel the cancellation token, tm_pc the call in progress,
    \* run_error what run() returned, shutdown_res the local res of shutdown(),
    \* ended how the futures of the tasks have ended, in the order of completion
    spawned, finished, joined, cancel, tm_pc, run_error, shutdown_res, ended,
    \* SpecMain: main_async from its select on. main_pc is its position,
    \* inner_pc the position of main_inner, inner_res what main_inner returned,
    \* service the state of the MCP service, fuse whether the fused future of
    \* the service has completed, sigterm whether the signal stream has a
    \* signal to hand out, main_res the local res of main_async, outcomes the
    \* results of the steps main_async has made, trace the messages and calls
    \* made so far, exit_code the code given to std::process::exit, init_resp
    \* the server's answer to initialize
    init_resp,
    main_pc, inner_pc, inner_res, service, fuse, sigterm, main_res, outcomes, trace, exit_code,
    \* SpecIo: a WriteFork and a ReadFork. io_inner is what the inner writer
    \* has accepted, io_filled the filled part of the ReadBuf, io_tee the
    \* messages queued for the background writer of each fork, io_op the call
    \* made last with its buffer and the inner stream's answer, io_rx the forks
    \* whose background writer still receives, io_ret what the call made last
    \* returned to its caller
    io_inner, io_filled, io_tee, io_op, io_rx, io_ret,
    \* SpecForward: wait_for_client with its progress future. progress_token
    \* is the token of the call's meta, published the events the task has sent
    \* while the call waits, notified the parameters of the notify_progress
    \* calls made, progress_counter the local progress of the loop
    progress_token, published, notified, progress_counter,
    \* SpecWriter: the background writer of a fork. wr_pc is the task's
    \* position, wr_rx the messages queued in its channel, wr_tx whether a
    \* sender is alive, wr_file the interception file, wr_res what the task
    \* returned, wr_sent the messages handed to send() so far
    wr_pc, wr_rx, wr_tx, wr_file, wr_res, wr_sent,
    \* SpecStartup: the start of the progress task next to the handshake.
    \* sub_pc is the task's position before its loop, emitted the $/progress
    \* notifications the server has sent, missed those that arrived while no
    \* subscription was registered
    sub_pc, emitted, missed,
    \* SpecBits: a TokenModifers and a BitIter over its bitset. bi_legend and
    \* bi_bitset are the fields of the TokenModifers, bi_remaining the field
    \* bitset_remaining of the BitIter, bi_yielded the items next() has
    \* returned, bi_hints what size_hint() returned after construction and
    \* after each call of next(), bi_modifiers what iter() has collected
    bi_legend, bi_bitset, bi_remaining, bi_yielded, bi_hints, bi_modifiers,
    \* SpecChain: format_error_chain. fe_chain is the error with its sources,
    \* the outermost first, fe_out the string returned
    fe_chain, fe_out

searchVars == <<chkQuery, chkCandidate, chkResult>>
tokenVars == <<file_content, tokens, decoded, lookup, found>>
toolVars == <<pc, req, lsp_sent, lsp_resp, locals, result, served, lsp_answers>>
guardVars ==
    <<init_parts, running, rdy, evt, evt_unseen, progress, progress_task, lease, begun>>
taskVars == <<spawned, finished, joined, cancel, tm_pc, run_error, shutdown_res, ended>>
mainVars ==
    <<main_pc, inner_pc, inner_res, service, fuse, sigterm, main_res, outcomes, trace, exit_code,
      init_resp>>
ioVars == <<io_inner, io_filled, io_tee, io_op, io_rx, io_ret>>
fwdVars == <<progress_token, published, notified, progress_counter>>
\* the groups of the later specifications
wrVars == <<wr_pc, wr_rx, wr_tx, wr_file, wr_res, wr_sent>>
startVars == <<sub_pc, emitted, missed>>
pureVars == <<bi_legend, bi_bitset, bi_remaining, bi_yielded, bi_hints, bi_modifiers, fe_chain, fe_out>>
extVars == <<fwdVars, wrVars, startVars, pureVars>>
\* the groups SpecForward leaves alone
fwdRest == <<wrVars, startVars, pureVars>>
sysVars == <<taskVars, mainVars, ioVars, extVars>>
vars == <<searchVars, tokenVars, overflow_checks, toolVars, guardVars, sysVars>>

\* Option: None is the empty set, Some(x) the set holding x
None == {}
Some(x) == {x}
IsSome(o) == o /= {}
Unwrap(o) == CHOOSE x \in o : TRUE

(***************************************************************************)
(* Bounds                                                                  *)
(***************************************************************************)
\* longest query / candidate of SpecSearch, in characters
MaxLen == 3
\* most raw semantic tokens in one response
MaxTokens == 2
\* most SymbolInformation entries in one response
MaxSymbols == 2
\* the LSP requests a tool call sends through one lease
MaxRequests == 2
\* the tasks a TaskManager supervises
MaxTasks == 2
\* the capacity of the ReadBuf handed to a ReadFork, and the calls made to
\* the forks
MaxBuf == 2
MaxCalls == 2
\* width of the model's u32: arithmetic is modulo 2^U32Bits
U32Bits == 3

RECURSIVE Pow2(_)
Pow2(n) == IF n = 0 THEN 1 ELSE 2 * Pow2(n - 1)

U32Modulus == Pow2(U32Bits)
U32Max == U32Modulus - 1

\* all sequences over S of length at most n
SeqsUpTo(S, n) == UNION {[1..k -> S] : k \in 0..n}

(***************************************************************************)
(* mcp/search.rs                                                           *)
(***************************************************************************)
SearchModes == {"Exact", "Fuzzy"}

\* characters the strings of SpecSearch are made of; "a" and "A" differ in case only
Alphabet == {"a", "A", "b"}

\* name.match_indices(query_char).next(): the first index of ch in name, 0 if none
MatchIndex(name, ch) ==
    IF \E i \in 1..Len(name) : name[i] = ch
    THEN CHOOSE i \in 1..Len(name) :
            /\ name[i] = ch
            /\ \A j \in 1..(i - 1) : name[j] /= ch
    ELSE 0

\* SearchMode::Exact
ExactCheck(query, candidate) == candidate = query

\* a fuzzy check that keeps the matched character in the remaining name
RECURSIVE FuzzyCheckNoAdvance(_, _)
FuzzyCheckNoAdvance(query, name) ==
    IF query = <<>> THEN TRUE
    ELSE LET index == MatchIndex(name, Head(query))
         IN  IF index = 0 THEN FALSE
             ELSE FuzzyCheckNoAdvance(Tail(query), SubSeq(name, index, Len(name)))

\* a fuzzy check that drops the character after the matched one as well
RECURSIVE FuzzyCheckSkipTwo(_, _)
FuzzyCheckSkipTwo(query, name) ==
    IF query = <<>> THEN TRUE
    ELSE LET index == MatchIndex(name, Head(query))
         IN  IF index = 0 THEN FALSE
             ELSE FuzzyCheckSkipTwo(Tail(query), SubSeq(name, index + 2, Len(name)))

\* SearchMode::Fuzzy: query.chars().all(..), name advanced past each match
RECURSIVE FuzzyCheck(_, _)
FuzzyCheck(query, name) ==
    IF query = <<>> THEN TRUE
    ELSE LET index == MatchIndex(name, Head(query))
         IN  IF index = 0 THEN FALSE
             ELSE FuzzyCheck(Tail(query), SubSeq(name, index + 1, Len(name)))

\* SearchMode::check
check(self, query, candidate) ==
    IF self = "Exact" THEN ExactCheck(query, candidate)
    ELSE FuzzyCheck(query, candidate)

(***************************************************************************)
(* lsp/tokens.rs                                                           *)
(***************************************************************************)
\* u32 addition: the sum, and whether it leaves the u32 range
Overflows(a, b) == a + b > U32Max
WrappingAdd(a, b) == (a + b) % U32Modulus

\* UTF-8 length of a character: "E" stands for a two-byte character such as e-acute
ByteWidth(ch) == IF ch = "E" THEN 2 ELSE 1

RECURSIVE ByteLen(_)
ByteLen(s) == IF s = <<>> THEN 0 ELSE ByteWidth(Head(s)) + ByteLen(Tail(s))

\* str::lines(): split at "\n"; a trailing empty piece is no line
RECURSIVE SplitLines(_, _)
SplitLines(content, cur) ==
    IF content = <<>> THEN (IF cur = <<>> THEN <<>> ELSE <<cur>>)
    ELSE IF Head(content) = "\n" THEN <<cur>> \o SplitLines(Tail(content), <<>>)
    ELSE SplitLines(Tail(content), Append(cur, Head(content)))

Lines(content) == SplitLines(content, <<>>)

\* str::is_char_boundary: byte offset off starts a character of s, or ends s
IsCharBoundary(s, off) == \E k \in 0..Len(s) : ByteLen(SubSeq(s, 1, k)) = off

\* the number of characters of s before byte offset off (a char boundary)
CharsBefore(s, off) == CHOOSE k \in 0..Len(s) : ByteLen(SubSeq(s, 1, k)) = off

\* str::get(start..end): the slice, None unless start <= end <= len and both
\* offsets are char boundaries
StrGet(s, start, end) ==
    IF /\ start <= end
       /\ end <= ByteLen(s)
       /\ IsCharBoundary(s, start)
       /\ IsCharBoundary(s, end)
    THEN Some(SubSeq(s, CharsBefore(s, start) + 1, CharsBefore(s, end)))
    ELSE None

\* TokenLegend { token_types, token_modifiers } as built by TokenLegend::new
token_types == <<"function">>
token_modifiers == <<"declaration", "static">>

\* Result<Document>: Ok(Document { tokens }), Err(message), or a panic
DecodeOk(doc_tokens) == [kind |-> "Ok", tokens |-> doc_tokens, msg |-> ""]
DecodeErr(m) == [kind |-> "Err", tokens |-> <<>>, msg |-> m]
DecodePanic == [kind |-> "Panic", tokens |-> <<>>, msg |-> "attempt to add with overflow"]

\* line += delta_line
NextLine(line, delta_line) == WrappingAdd(line, delta_line)

\* start = if delta_line > 0 { delta_start } else { start + delta_start }
NextStart(start, delta_line, delta_start) ==
    IF delta_line > 0 THEN delta_start ELSE WrappingAdd(start, delta_start)

\* the body of `for token in tokens` and the final Ok(Document { .. }).
\* checks: the build panics on integer overflow (debug), else it wraps (release)
RECURSIVE DecodeLoop(_, _, _, _, _, _)
DecodeLoop(lines, rest, line0, start0, doc_tokens, checks) ==
    IF rest = <<>> THEN DecodeOk(doc_tokens)
    ELSE
    LET token == Head(rest)
        line == NextLine(line0, token.delta_line)
        start == NextStart(start0, token.delta_line, token.delta_start)
        end == WrappingAdd(start, token.length)
    IN  IF checks /\ Overflows(line0, token.delta_line) THEN DecodePanic
        ELSE IF checks /\ token.delta_line = 0 /\ Overflows(start0, token.delta_start)
        THEN DecodePanic
        ELSE IF token.token_type >= Len(token_types)
        THEN DecodeErr("invalid token type")
        ELSE IF checks /\ Overflows(start, token.length) THEN DecodePanic
        ELSE IF line >= Len(lines) THEN DecodeErr("token line of of bounds")
        ELSE IF StrGet(lines[line + 1], start, end) = None
        THEN DecodeErr("range out of bounds")
        ELSE IF checks /\ (Overflows(line, 1) \/ Overflows(start, 1)) THEN DecodePanic
        ELSE DecodeLoop(lines, Tail(rest), line, start,
                Append(doc_tokens,
                    [line |-> WrappingAdd(line, 1),
                     character |-> WrappingAdd(start, 1),
                     token_type |-> token_types[token.token_type + 1],
                     token_modifiers |-> token.token_modifiers_bitset,
                     data |-> Unwrap(StrGet(lines[line + 1], start, end))]),
                checks)

\* TokenLegend::decode
decode(content, raw, checks) == DecodeLoop(Lines(content), raw, 0, 0, <<>>, checks)

\* u32::abs_diff
AbsDiff(a, b) == IF a >= b THEN a - b ELSE b - a

\* the key of Document::query: (line.map(abs_diff), character.map(abs_diff))
QueryKey(token, line, character) ==
    << IF IsSome(line) THEN Some(AbsDiff(Unwrap(line), token.line)) ELSE None,
       IF IsSome(character) THEN Some(AbsDiff(Unwrap(character), token.character)) ELSE None >>

\* Ord for Option<u32>: None < Some(_), Some by value. "Less", "Equal", "Greater"
OptionCmp(a, b) ==
    IF ~IsSome(a) /\ ~IsSome(b) THEN "Equal"
    ELSE IF ~IsSome(a) THEN "Less"
    ELSE IF ~IsSome(b) THEN "Greater"
    ELSE IF Unwrap(a) < Unwrap(b) THEN "Less"
    ELSE IF Unwrap(a) > Unwrap(b) THEN "Greater"
    ELSE "Equal"

\* Ord for the tuple key: lexicographic
KeyCmp(k1, k2) ==
    IF OptionCmp(k1[1], k2[1]) /= "Equal" THEN OptionCmp(k1[1], k2[1])
    ELSE OptionCmp(k1[2], k2[2])

\* Iterator::min_by_key: the first element with the minimal key only
RECURSIVE MinByKey(_, _, _, _, _)
MinByKey(doc_tokens, rest, line, character, acc) ==
    IF rest = <<>> THEN acc
    ELSE IF acc = <<>> THEN MinByKey(doc_tokens, Tail(rest), line, character, <<Head(rest)>>)
    ELSE IF KeyCmp(QueryKey(doc_tokens[Head(rest)], line, character),
                   QueryKey(doc_tokens[acc[1]], line, character)) = "Less"
    THEN MinByKey(doc_tokens, Tail(rest), line, character, <<Head(rest)>>)
    ELSE MinByKey(doc_tokens, Tail(rest), line, character, acc)

\* itertools min_set_by_key over the token references rest (indices into
\* doc_tokens): Less replaces the result, Equal pushes, Greater skips
RECURSIVE MinSetByKey(_, _, _, _, _)
MinSetByKey(doc_tokens, rest, line, character, acc) ==
    IF rest = <<>> THEN acc
    ELSE IF acc = <<>> THEN MinSetByKey(doc_tokens, Tail(rest), line, character, <<Head(rest)>>)
    ELSE LET cmp == KeyCmp(QueryKey(doc_tokens[Head(rest)], line, character),
                           QueryKey(doc_tokens[acc[1]], line, character))
         IN  MinSetByKey(doc_tokens, Tail(rest), line, character,
                CASE cmp = "Less" -> <<Head(rest)>>
                  [] cmp = "Equal" -> Append(acc, Head(rest))
                  [] OTHER -> acc)

\* .filter(|token| token.data == name) as references in document order
RECURSIVE FilterByName(_, _, _)
FilterByName(doc_tokens, name, i) ==
    IF i > Len(doc_tokens) THEN <<>>
    ELSE (IF doc_tokens[i].data = name THEN <<i>> ELSE <<>>)
         \o FilterByName(doc_tokens, name, i + 1)

\* Document::query: the references (indices) of the chosen tokens
DocumentQuery(doc_tokens, name, line, character) ==
    MinSetByKey(doc_tokens, FilterByName(doc_tokens, name, 1), line, character, <<>>)

(***************************************************************************)
(* lsp/location.rs                                                         *)
(***************************************************************************)
\* a path: absolute or not, and its components
Path(absolute, components) == [absolute |-> absolute, components |-> components]

\* self.workspace: absolute and canonical
workspace == Path(TRUE, <<"ws">>)

RECURSIVE JoinComponents(_)
JoinComponents(components) ==
    IF components = <<>> THEN ""
    ELSE IF Len(components) = 1 THEN components[1]
    ELSE components[1] \o "/" \o JoinComponents(Tail(components))

\* Path::display().to_string()
Display(path) == (IF path.absolute THEN "/" ELSE "") \o JoinComponents(path.components)

\* Path::strip_prefix: component-wise; Err is None here
StripPrefix(path, base) ==
    IF /\ path.absolute = base.absolute
       /\ Len(base.components) <= Len(path.components)
       /\ SubSeq(path.components, 1, Len(base.components)) = base.components
    THEN Some(Path(FALSE, SubSeq(path.components, Len(base.components) + 1,
                                 Len(path.components))))
    ELSE None

\* McpLocation { file, line, character }
McpLocation(file, line, character) ==
    [file |-> file, line |-> line, character |-> character]

\* a try_new that keeps every path as the server sent it
TryNewKeepsAbsolute(loc, ws, workspace_and_dependencies) ==
    IF loc.path.absolute /\ StripPrefix(loc.path, ws) = None /\ ~workspace_and_dependencies
    THEN None
    ELSE Some(McpLocation(Display(loc.path), WrappingAdd(loc.line, 1),
                          WrappingAdd(loc.character, 1)))

\* McpLocation::try_new: Ok(None) is None, Ok(Some(loc)) is Some(loc); parsing
\* the URI path as a PathBuf cannot fail
try_new(loc, ws, workspace_and_dependencies) ==
    IF loc.path.absolute
    THEN IF IsSome(StripPrefix(loc.path, ws))
         THEN Some(McpLocation(Display(Unwrap(StripPrefix(loc.path, ws))),
                               WrappingAdd(loc.line, 1), WrappingAdd(loc.character, 1)))
         ELSE IF workspace_and_dependencies
         THEN Some(McpLocation(Display(loc.path),
                               WrappingAdd(loc.line, 1), WrappingAdd(loc.character, 1)))
         ELSE None
    ELSE Some(McpLocation(Display(loc.path),
                          WrappingAdd(loc.line, 1), WrappingAdd(loc.character, 1)))

\* file names given by callers: the ones that start with "/", and the ones
\* that do not parse as a URI (a space in the name)
AbsoluteNames == {"/ws/src/lib.rs"}
UnparsableNames == {"my file.rs"}

\* path_to_uri: relative paths are prefixed with the workspace; None when the
\* text does not parse as a URI
path_to_uri(ws, path) ==
    IF path \in UnparsableNames THEN None
    ELSE IF path \in AbsoluteNames THEN Some("file://" \o path)
    ELSE Some("file://" \o Display(ws) \o "/" \o path)

\* LocationVariants::format: a Scalar is the location's text, or "" if it is
\* dropped; an empty Array or Link is "None"; otherwise one "- <location>"
\* line per location that is kept
RECURSIVE FormatLocations(_, _, _)
FormatLocations(locations, ws, workspace_and_dependencies) ==
    IF locations = <<>> THEN <<>>
    ELSE LET loc == try_new(Head(locations), ws, workspace_and_dependencies)
             rest == FormatLocations(Tail(locations), ws, workspace_and_dependencies)
         IN  IF IsSome(loc)
             THEN <<"- " \o Unwrap(loc).file \o ":" \o ToString(Unwrap(loc).line)
                        \o ":" \o ToString(Unwrap(loc).character)>> \o rest
             ELSE rest

RECURSIVE JoinLines(_, _)
JoinLines(lines, sep) ==
    IF lines = <<>> THEN ""
    ELSE IF Len(lines) = 1 THEN lines[1]
    ELSE lines[1] \o sep \o JoinLines(Tail(lines), sep)

format(variants, ws, workspace_and_dependencies) ==
    CASE variants.kind = "Scalar" ->
            LET loc == try_new(variants.locations[1], ws, workspace_and_dependencies)
            IN  IF IsSome(loc)
                THEN Unwrap(loc).file \o ":" \o ToString(Unwrap(loc).line)
                        \o ":" \o ToString(Unwrap(loc).character)
                ELSE ""
      [] variants.locations = <<>> -> "None"
      [] OTHER ->
            JoinLines(FormatLocations(variants.locations, ws, workspace_and_dependencies),
                      "\n")

(***************************************************************************)
(* mcp/error.rs and the rmcp results                                       *)
(***************************************************************************)
\* Content::text, Content::json
Text(t) == [type |-> "text", text |-> t]
Json(v) == [type |-> "json", json |-> v]

\* Ok(CallToolResult::success(content))
Success(content) ==
    [kind |-> "CallToolResult", is_error |-> FALSE, content |-> content,
     code |-> "", message |-> ""]

\* Err(McpError { code, message })
McpError(code, message) ==
    [kind |-> "McpError", is_error |-> FALSE, content |-> <<>>,
     code |-> code, message |-> message]

\* a tool error reported as a protocol error
ToolErrorAsMcpError(content) == McpError("resource_not_found", content[1].text)

\* Ok(CallToolResult::error(content))
ToolError(content) ==
    [kind |-> "CallToolResult", is_error |-> TRUE, content |-> content,
     code |-> "", message |-> ""]

\* OptionExt::required: None is invalid_params("<what> is required")
required(option, what) ==
    IF IsSome(option) THEN [ok |-> TRUE, err |-> McpError("", "")]
    ELSE [ok |-> FALSE, err |-> McpError("invalid_params", what \o " is required")]

\* ResultExt::internal on an error with the given context chain
internal(message) == McpError("internal_error", message)

(***************************************************************************)
(* mcp/mod.rs: find_symbol                                                 *)
(***************************************************************************)
\* an LSP request as sent through the client: the method and the parameters
\* the handlers set
Request(method, uri, query, search_scope, line, character) ==
    [method |-> method, uri |-> uri, query |-> query, search_scope |-> search_scope,
     line |-> line, character |-> character]

\* the files under the workspace: a source file, a directory, and a file
\* whose name is no valid URI; every other name does not exist
ReadToString(file) ==
    CASE file = "src/lib.rs" -> [kind |-> "Ok", content |-> <<"a", "a", "\n", "a", "a">>]
      [] file = "/ws/src/lib.rs" -> [kind |-> "Ok", content |-> <<"a", "a", "\n", "a", "a">>]
      [] file = "my file.rs" -> [kind |-> "Ok", content |-> <<"a">>]
      [] file \in {"src", ""} -> [kind |-> "IsADirectory", content |-> <<>>]
      [] OTHER -> [kind |-> "NotFound", content |-> <<>>]

\* CodeExplorer::read_file: Ok(Some(s)), Ok(None) for NotFound, Err otherwise
read_file(file) ==
    LET r == ReadToString(file)
    IN  CASE r.kind = "Ok" -> [kind |-> "Some", content |-> r.content]
          [] r.kind = "NotFound" -> [kind |-> "None", content |-> <<>>]
          [] OTHER -> [kind |-> "Err", content |-> <<>>]

\* an empty_string_to_none that keeps the empty string
EmptyStringKept(s, empty) == s

\* empty_string_to_none; empty is the empty string of the argument's type
empty_string_to_none(s, empty) == IF IsSome(s) /\ Unwrap(s) /= empty THEN s ELSE None

\* Option<bool>::unwrap_or_default
UnwrapOrDefault(b) == IF IsSome(b) THEN Unwrap(b) ELSE FALSE

\* SymbolResult
SymbolResult(si, loc) ==
    [name |-> si.name, kind |-> si.kind, deprecated |-> si.deprecated,
     file |-> loc.file, line |-> loc.line, character |-> loc.character]

\* CodeExplorer::filter_symbol_informations
RECURSIVE filter_symbol_informations(_, _, _, _)
filter_symbol_informations(symbol_informations, query, mode, workspace_and_dependencies) ==
    IF symbol_informations = <<>> THEN <<>>
    ELSE
    LET si == Head(symbol_informations)
        rest == filter_symbol_informations(Tail(symbol_informations), query, mode,
                                           workspace_and_dependencies)
        keep == IF IsSome(query) THEN check(mode, Unwrap(query), si.name) ELSE TRUE
        loc == try_new(si.location, workspace, workspace_and_dependencies)
    IN  IF keep /\ IsSome(loc) THEN <<SymbolResult(si, Unwrap(loc))>> \o rest
        ELSE rest

\* an auto-expand that also fires when the caller passed false
AutoExpandUnlessTrue(results, workspace_and_dependencies_orig) ==
    results = <<>> /\ ~UnwrapOrDefault(workspace_and_dependencies_orig)

\* results.is_empty() && workspace_and_dependencies_orig.is_none()
AutoExpand(results, workspace_and_dependencies_orig) ==
    results = <<>> /\ workspace_and_dependencies_orig = None

\* a response reading that takes a nested response as no symbols
SymbolResponseNestedAsEmpty(resp) ==
    CASE resp.kind = "Null" -> [ret |-> Some(Success(<<>>)), symbols |-> <<>>]
      [] resp.kind = "Flat" -> [ret |-> None, symbols |-> resp.symbols]
      [] OTHER -> [ret |-> None, symbols |-> <<>>]

\* let Some(resp) = resp else { return success(vec![]) }; match resp { Flat, Nested }
\* ret: the early return, if any; symbols: the flat list otherwise
SymbolResponse(resp) ==
    CASE resp.kind = "Null" -> [ret |-> Some(Success(<<>>)), symbols |-> <<>>]
      [] resp.kind = "Flat" -> [ret |-> None, symbols |-> resp.symbols]
      [] OTHER ->
            [ret |-> Some(McpError("internal_error",
                                   "nested symbols are not yet implemented")),
             symbols |-> <<>>]

\* Content::json of every result
RECURSIVE JsonContent(_)
JsonContent(results) ==
    IF results = <<>> THEN <<>> ELSE <<Json(Head(results))>> \o JsonContent(Tail(results))

\* find_symbol up to its LSP request: ret is the early return, if any, and
\* send the request it awaits otherwise
FindSymbolBegin(request) ==
    LET query == empty_string_to_none(request.query, <<>>)
        file == empty_string_to_none(request.file, "")
        workspace_and_dependencies == UnwrapOrDefault(request.workspace_and_dependencies)
    IN  IF IsSome(file)
        THEN LET f == Unwrap(file)
                 read == read_file(f)
             IN  CASE read.kind = "Err" ->
                        [ret |-> Some(internal("read file: Is a directory")), send |-> None]
                   [] read.kind = "None" ->
                        [ret |-> Some(ToolError(<<Text("file not found: " \o f)>>)),
                         send |-> None]
                   [] path_to_uri(workspace, f) = None ->
                        [ret |-> Some(internal("convert path to URI: parse file URI")),
                         send |-> None]
                   [] OTHER ->
                        [ret |-> None,
                         send |-> Some(Request("textDocument/documentSymbol",
                                               Unwrap(path_to_uri(workspace, f)),
                                               <<>>, "", 0, 0))]
        ELSE IF ~required(query, "query").ok
        THEN [ret |-> Some(required(query, "query").err), send |-> None]
        ELSE [ret |-> None,
              send |-> Some(Request("workspace/symbol", "", Unwrap(query),
                                    IF workspace_and_dependencies
                                    THEN "WorkspaceAndDependencies" ELSE "Workspace",
                                    0, 0))]

\* find_symbol from the LSP response to its return
FindSymbolEnd(request, sent, resp) ==
    LET query == empty_string_to_none(request.query, <<>>)
        mode == IF UnwrapOrDefault(request.fuzzy) THEN "Fuzzy" ELSE "Exact"
        workspace_and_dependencies == UnwrapOrDefault(request.workspace_and_dependencies)
        read == SymbolResponse(resp)
        results == filter_symbol_informations(read.symbols, query, mode,
                                              workspace_and_dependencies)
    IN  IF resp.kind = "Err"
        THEN internal((IF sent.method = "workspace/symbol" THEN "WorkspaceSymbolRequest"
                       ELSE "DocumentSymbolRequest") \o ": request failed")
        ELSE IF IsSome(read.ret) THEN Unwrap(read.ret)
        ELSE IF AutoExpand(results, request.workspace_and_dependencies)
        THEN Success(JsonContent(
                filter_symbol_informations(read.symbols, query, mode, TRUE)))
        ELSE Success(JsonContent(results))

(***************************************************************************)
(* mcp/mod.rs: symbol_info                                                 *)
(***************************************************************************)
\* OptionExt::expected: a value the server had to provide
expected(option_is_some, what) ==
    IF option_is_some THEN [ok |-> TRUE, err |-> McpError("", "")]
    ELSE [ok |-> FALSE, err |-> McpError("internal_error", what)]

\* TokenModifers::iter: legend zipped with the bits of the bitset, least
\* significant first, until the legend or the set bits run out
RECURSIVE ModifiersFrom(_, _)
ModifiersFrom(i, bitset_remaining) ==
    IF i > Len(token_modifiers) \/ bitset_remaining = 0 THEN <<>>
    ELSE (IF bitset_remaining % 2 = 1 THEN <<token_modifiers[i]>> ELSE <<>>)
         \o ModifiersFrom(i + 1, bitset_remaining \div 2)

TokenModifiersIter(bitset) == ModifiersFrom(1, bitset)

\* u32 subtraction
WrappingSub(a, b) == (a - b + U32Modulus) % U32Modulus

\* the requests of symbol_info_for_token, in the order they are awaited
TokenMethods ==
    << "textDocument/hover", "textDocument/declaration", "textDocument/definition",
       "textDocument/implementation", "textDocument/typeDefinition",
       "textDocument/references" >>
TokenContexts ==
    << "HoverRequest", "GotoDeclaration", "GotoDefinition", "GotoImplementation",
       "GotoTypeDefinition", "References" >>
\* the titles with Declarations and Definitions exchanged
TokenTitlesSwapped ==
    << "", "Definitions", "Declarations", "Implementations", "Type Definitions",
       "References" >>
TokenTitles ==
    << "", "Declarations", "Definitions", "Implementations", "Type Definitions",
       "References" >>

\* str::trim on the hover texts of the model
Trim(value) == IF value = " docs \n" THEN "docs" ELSE value

\* the code fence of Markdown, three backquotes
Fence == "<fence>"

\* format_marked_string
format_marked_string(ms) ==
    IF ms.language = "" THEN Trim(ms.value)
    ELSE Fence \o ms.language \o "\n" \o ms.value \o "\n" \o Fence \o "\n"

RECURSIVE FormatMarkedStrings(_)
FormatMarkedStrings(items) ==
    IF items = <<>> THEN <<>>
    ELSE <<format_marked_string(Head(items))>> \o FormatMarkedStrings(Tail(items))

\* the sections a non-null answer to request k adds
TokenSections(k, answer, workspace_and_dependencies) ==
    IF k = 1
    THEN IF answer.kind = "Markup" THEN <<Trim(answer.items[1].value)>>
         ELSE FormatMarkedStrings(answer.items)
    ELSE IF k = 6
    THEN LET locations == FormatLocations(answer.locations, workspace,
                                          workspace_and_dependencies)
         IN  <<"References:\n" \o (IF locations = <<>> THEN "None"
                                   ELSE JoinLines(locations, "\n"))>>
    ELSE <<TokenTitles[k] \o ":\n" \o format(answer, workspace, workspace_and_dependencies)>>

\* a handler that treats a null hover like any other null answer
RECURSIVE ForTokenFromNoSkip(_, _, _, _, _, _)
ForTokenFromNoSkip(k, sections, sent, position, answers, workspace_and_dependencies) ==
    IF k > Len(TokenMethods)
    THEN [kind |-> "Some", text |-> JoinLines(sections, "\n\n---\n\n"),
          err |-> McpError("", ""), sent |-> sent]
    ELSE
    LET answer == answers[k]
        sent2 == Append(sent, Request(TokenMethods[k], position.uri, <<>>, "",
                                      position.line, position.character))
    IN  IF answer.kind = "Err"
        THEN [kind |-> "Err", text |-> "",
              err |-> internal(TokenContexts[k] \o ": request failed"), sent |-> sent2]
        ELSE IF answer.kind = "Null"
        THEN ForTokenFromNoSkip(k + 1, sections, sent2, position, answers,
                                workspace_and_dependencies)
        ELSE ForTokenFromNoSkip(k + 1,
                sections \o TokenSections(k, answer, workspace_and_dependencies),
                sent2, position, answers, workspace_and_dependencies)

\* symbol_info_for_token from request k on. answers[k] is the server's answer
\* to request k. kind is "Some" (the item's text), "None" (no hover) or "Err"
RECURSIVE ForTokenFrom(_, _, _, _, _, _)
ForTokenFrom(k, sections, sent, position, answers, workspace_and_dependencies) ==
    IF k > Len(TokenMethods)
    THEN [kind |-> "Some", text |-> JoinLines(sections, "\n\n---\n\n"),
          err |-> McpError("", ""), sent |-> sent]
    ELSE
    LET answer == answers[k]
        sent2 == Append(sent, Request(TokenMethods[k], position.uri, <<>>, "",
                                      position.line, position.character))
    IN  IF answer.kind = "Err"
        THEN [kind |-> "Err", text |-> "",
              err |-> internal(TokenContexts[k] \o ": request failed"), sent |-> sent2]
        ELSE IF answer.kind = "Null"
        THEN IF k = 1
             THEN [kind |-> "None", text |-> "", err |-> McpError("", ""), sent |-> sent2]
             ELSE ForTokenFrom(k + 1, sections, sent2, position, answers,
                               workspace_and_dependencies)
        ELSE ForTokenFrom(k + 1,
                          sections \o TokenSections(k, answer, workspace_and_dependencies),
                          sent2, position, answers, workspace_and_dependencies)

\* CodeExplorer::symbol_info_for_token
symbol_info_for_token(token, path, answers, workspace_and_dependencies) ==
    LET modifiers == JoinLines(TokenModifiersIter(token.token_modifiers), ", ")
        header == "Token:\n\n- location: " \o path \o ":" \o ToString(token.line) \o ":"
                    \o ToString(token.character) \o "\n- type: " \o token.token_type
                    \o "\n- modifiers: " \o (IF modifiers = "" THEN "none" ELSE modifiers)
        position == [uri |-> Unwrap(path_to_uri(workspace, path)),
                     line |-> WrappingSub(token.line, 1),
                     character |-> WrappingSub(token.character, 1)]
    IN  ForTokenFrom(1, <<header>>, <<>>, position, answers, workspace_and_dependencies)

\* symbol_info up to its semanticTokens request
SymbolInfoBegin(request) ==
    LET read == read_file(Unwrap(request.file))
    IN  CASE read.kind = "Err" ->
                [ret |-> Some(internal("read file: Is a directory")), send |-> None]
          [] read.kind = "None" ->
                [ret |-> Some(ToolError(<<Text("file not found: " \o Unwrap(request.file))>>)),
                 send |-> None]
          [] path_to_uri(workspace, Unwrap(request.file)) = None ->
                [ret |-> Some(internal(
                    "convert path to text document identifier: parse file URI")),
                 send |-> None]
          [] OTHER ->
                [ret |-> None,
                 send |-> Some(Request("textDocument/semanticTokens/full",
                                       Unwrap(path_to_uri(workspace, Unwrap(request.file))),
                                       <<>>, "", 0, 0))]

\* symbol_info from the semanticTokens response to doc.query: ret is the early
\* return, if any, and candidates the tokens query chose otherwise
SymbolInfoTokens(request, resp, checks) ==
    LET doc == decode(read_file(Unwrap(request.file)).content, resp.data, checks)
    IN  CASE resp.kind = "Err" ->
                [ret |-> Some(internal("SemanticTokensFullRequest: request failed")),
                 candidates |-> <<>>]
          [] resp.kind = "Null" ->
                [ret |-> Some(expected(FALSE,
                    "language server did not provide any semantic tokens").err),
                 candidates |-> <<>>]
          [] resp.kind = "Partial" ->
                [ret |-> Some(McpError("internal_error",
                    "partial semantic token results are not supported")),
                 candidates |-> <<>>]
          [] doc.kind = "Panic" ->
                [ret |-> Some([kind |-> "Panic", is_error |-> FALSE, content |-> <<>>,
                               code |-> "", message |-> doc.msg]),
                 candidates |-> <<>>]
          [] doc.kind = "Err" ->
                [ret |-> Some(internal("decode semantic tokens: " \o doc.msg)),
                 candidates |-> <<>>]
          [] OTHER ->
                LET refs == DocumentQuery(doc.tokens, request.name, request.line,
                                          request.character)
                IN  [ret |-> None,
                     candidates |-> [k \in 1..Len(refs) |-> doc.tokens[refs[k]]]]

(***************************************************************************)
(* lsp/progress_guard.rs                                                   *)
(***************************************************************************)
\* lsp_types::NumberOrString
Number(n) == [kind |-> "Number", number |-> n, string |-> ""]
String(s) == [kind |-> "String", number |-> 0, string |-> s]

\* Rust::init_progress_parts: the progress tokens expected before the server
\* is ready
init_progress_parts ==
    { "rustAnalyzer/Building CrateGraph", "rustAnalyzer/Roots Scanned",
      "rustAnalyzer/cachePriming", "rust-analyzer/flycheck/0" }

\* struct Ready
Ready(init, progress_flag) == [init |-> init, progress |-> progress_flag]

\* Ready::ready
ready(r) == r.init /\ r.progress

\* a channel that starts ready
InitialReadyDone == Ready(TRUE, TRUE)
\* channel(Ready { init: false, progress: true })
InitialReady == Ready(FALSE, TRUE)

\* a state whose init flag also asks for no work in flight
NewReadyInitNeedsIdle(parts, run) == Ready(parts = {} /\ run = {}, run = {})
\* let new_rdy = Ready { init: init_parts.is_empty(), progress: running.is_empty() }
NewReady(parts, run) == Ready(parts = {}, run = {})

\* an insert that never reports a token as present
InsertAlways(run, token) == [ok |-> TRUE, set |-> run \cup {token}]
\* HashSet::insert: false if the token was present
Insert(run, token) == [ok |-> token \notin run, set |-> run \cup {token}]

\* a remove that leaves the token in the set
RemoveKeeps(run, token) == [ok |-> token \in run, set |-> run]
\* HashSet::remove: false if the token was not present
Remove(run, token) == [ok |-> token \in run, set |-> run \ {token}]

\* an expected set that never shrinks
RemoveInitPartNever(parts, token) == parts
\* if let NumberOrString::String(token) = &progress.token { init_parts.remove(token); }
RemoveInitPart(parts, token) ==
    IF token.kind = "String" THEN parts \ {token.string} ELSE parts

\* {:?} of a NumberOrString
DebugToken(token) ==
    IF token.kind = "String" THEN "String(\"" \o token.string \o "\")"
    ELSE "Number(" \o ToString(token.number) \o ")"

\* format_event: the phase, the token if it is a string, the title, the
\* message and the percentage, joined by blanks
format_event(token, phase, title, message, percentage) ==
    JoinLines(<<phase>>
              \o (IF token.kind = "String" THEN <<token.string>> ELSE <<>>)
              \o (IF IsSome(title) THEN <<Unwrap(title)>> ELSE <<>>)
              \o (IF IsSome(message) THEN <<Unwrap(message)>> ELSE <<>>)
              \o (IF IsSome(percentage) THEN <<ToString(Unwrap(percentage)) \o "%">>
                  ELSE <<>>),
              " ")

\* one turn of the task's loop on a notification: ok is FALSE with the error
\* of ensure!, or TRUE with the new sets and the event
ProcessProgress(parts, run, notification) ==
    LET token == notification.token
        failed(msg) == [ok |-> FALSE, err |-> msg \o DebugToken(token),
                        parts |-> parts, run |-> run, event |-> ""]
    IN  CASE notification.kind = "Begin" ->
                LET inserted == Insert(run, token)
                IN  IF ~inserted.ok THEN failed("Progress double start: ")
                    ELSE [ok |-> TRUE, err |-> "",
                          parts |-> RemoveInitPart(parts, token), run |-> inserted.set,
                          event |-> format_event(token, "start", Some(notification.title),
                                                 None, None)]
          [] notification.kind = "Report" ->
                [ok |-> TRUE, err |-> "", parts |-> parts, run |-> run,
                 event |-> format_event(token, "progress", None, None,
                                        Some(notification.percentage))]
          [] OTHER ->
                LET removed == Remove(run, token)
                IN  IF ~removed.ok THEN failed("Progress end without start: ")
                    ELSE [ok |-> TRUE, err |-> "", parts |-> parts, run |-> removed.set,
                          event |-> format_event(token, "end", None, None, None)]

\* a wait that never blocks
WaitForAlwaysOk(r, closed) == "Ok"
\* a wait that gives up when the value is not ready
WaitForTimesOut(r, closed) == IF ready(r) THEN "Ok" ELSE "Err"
\* tokio's watch::Receiver::wait_for(|rdy| rdy.ready()): Ok once the value is
\* ready, Err if it is not and the sender is gone, pending otherwise
WaitFor(r, closed) ==
    IF ready(r) THEN "Ok" ELSE IF closed THEN "Err" ELSE "Pending"

(***************************************************************************)
(* tasks.rs                                                                *)
(***************************************************************************)
\* anyhow::Error: its chain of messages, the outermost context first
ErrorMsg(msg) == <<msg>>

\* Error::context
WithContext(e, context) == <<context>> \o e

\* {:#} of an anyhow::Error: the chain joined by ": "
Alternate(e) == JoinLines(e, ": ")

\* Result<()>
Ok == [ok |-> TRUE, err |-> <<>>]
Err(e) == [ok |-> FALSE, err |-> e]

\* Context::context and Context::with_context on a Result
ResultContext(r, context) == IF r.ok THEN r ELSE Err(WithContext(r.err, context))

\* an and that lets the later error win
AndLast(r, other) == IF other.ok THEN r ELSE other
\* Result::and: the first error wins
And(r, other) == IF r.ok THEN other ELSE r

\* how a task's future ends: it returns Ok(()), returns an error or panics
\* with a payload of some type
NoPayload == [type |-> "", text |-> ""]
Returned == [kind |-> "Ok", err |-> <<>>, payload |-> NoPayload]
Failed(e) == [kind |-> "Err", err |-> e, payload |-> NoPayload]
Panicked(type, text) ==
    [kind |-> "Panic", err |-> <<>>, payload |-> [type |-> type, text |-> text]]

\* Any::downcast_ref::<T>() on a panic payload
DowncastRef(payload, type) == IF payload.type = type THEN Some(payload.text) ELSE None

\* Option::or
OptionOr(a, b) == IF IsSome(a) THEN a ELSE b

\* a message taken from String payloads only
PanicMessageStringOnly(payload) == DowncastRef(payload, "String")
\* e.downcast_ref::<String>().map(..).or(e.downcast_ref::<&str>().map(..))
PanicMessage(payload) ==
    OptionOr(DowncastRef(payload, "String"), DowncastRef(payload, "&str"))

\* a task whose panic is not caught: join_next yields a JoinError for it
TaskResultPanicEscapes(name, outcome) ==
    [name |-> name,
     res |-> CASE outcome.kind = "Ok" -> Ok
               [] outcome.kind = "Err" -> Err(WithContext(outcome.err, "task " \o name))
               [] OTHER -> Err(ErrorMsg("join"))]
\* the task that spawn_inner builds around the future: the future's result,
\* a panic turned into an error, under the context "task {name}"
TaskResult(name, outcome) ==
    LET r == CASE outcome.kind = "Ok" -> Ok
               [] outcome.kind = "Err" -> Err(outcome.err)
               [] OTHER ->
                    LET msg == PanicMessage(outcome.payload)
                    IN  Err(WithContext(ErrorMsg(IF IsSome(msg) THEN Unwrap(msg)
                                                 ELSE "<unknown>"),
                                        "panic"))
    IN  [name |-> name, res |-> ResultContext(r, "task " \o name)]

\* a run that passes a normal return on as an empty error
RunErrorOkSilent(task_res) == task_res.res.err
\* TaskManager::run on the result join_next yields: a normal return is the
\* error "task '{name}' returned early", an error is returned as it is.
\* (join_next yields a JoinError only for an aborted task or a panic that
\* escaped; spawn_inner catches panics and nothing aborts a task.)
RunError(task_res) ==
    IF task_res.res.ok THEN ErrorMsg("task '" \o task_res.name \o "' returned early")
    ELSE task_res.res.err

\* a shutdown that takes a normal return for an early return
ShutdownTaskResultEarly(task_res) == Err(RunError(task_res))
\* TaskManager::shutdown on one joined task: its result without the name
ShutdownTaskResult(task_res) == task_res.res

(***************************************************************************)
(* lsp/init.rs                                                             *)
(***************************************************************************)
\* PositionEncodingKind::UTF8
UTF8 == "utf-8"

\* SemanticTokensFullOptions: Bool(bool) or Delta { delta: Option<bool> }
FullBool(b) == [variant |-> "Bool", bool |-> b, delta |-> None]
FullDelta(delta) == [variant |-> "Delta", bool |-> FALSE, delta |-> delta]

\* SemanticTokensServerCapabilities: SemanticTokensOptions with its field
\* full, or SemanticTokensRegistrationOptions
SemanticTokensOptions(full) == [variant |-> "SemanticTokensOptions", full |-> full]
SemanticTokensRegistrationOptions ==
    [variant |-> "SemanticTokensRegistrationOptions", full |-> None]

\* ServerCapabilities: the two fields init_lsp reads
ServerCapabilities(position_encoding, semantic_tokens_provider) ==
    [position_encoding |-> position_encoding,
     semantic_tokens_provider |-> semantic_tokens_provider]

\* a check that takes full: true for delta mode
UsesDeltaBool(full) ==
    IF full.variant = "Bool" THEN full.bool
    ELSE IF IsSome(full.delta) THEN Unwrap(full.delta) ELSE FALSE
\* let uses_delta = match full { Bool(_) => false, Delta { delta } => delta.unwrap_or_default() }
UsesDelta(full) ==
    IF full.variant = "Bool" THEN FALSE
    ELSE IF IsSome(full.delta) THEN Unwrap(full.delta) ELSE FALSE

\* the checks of init_lsp on the server's capabilities, in the code's order
CheckCapabilities(server_caps) ==
    IF ~IsSome(server_caps.position_encoding)
    THEN Err(ErrorMsg("language server reports position encoding"))
    ELSE IF Unwrap(server_caps.position_encoding) /= UTF8
    THEN Err(ErrorMsg("position encoding is UTF-8"))
    ELSE IF ~IsSome(server_caps.semantic_tokens_provider)
    THEN Err(ErrorMsg("expect language server to support semantic tokens"))
    ELSE LET provider == Unwrap(server_caps.semantic_tokens_provider)
         IN  IF provider.variant = "SemanticTokensRegistrationOptions"
             THEN Err(ErrorMsg("dynamic token registration not supported"))
             ELSE IF ~IsSome(provider.full)
             THEN Err(ErrorMsg("language server supports semantic tokens for full document"))
             ELSE IF ~UsesDelta(Unwrap(provider.full))
             THEN Err(ErrorMsg("language server uses delta mode to transfer semantic tokens"))
             ELSE Ok

\* the answer to the initialize request: an error or the capabilities
InitializeFailed(e) == [ok |-> FALSE, err |-> e, capabilities |-> ServerCapabilities(None, None)]
InitializeResult(capabilities) == [ok |-> TRUE, err |-> <<>>, capabilities |-> capabilities]

\* init_lsp: the initialize request, the checks on its answer and the
\* initialized notification; res is what it returns and sent what it has sent
init_lsp(response, initialized) ==
    IF ~response.ok
    THEN [res |-> Err(WithContext(response.err, "initialize language server")),
          sent |-> <<"initialize">>]
    ELSE LET checked == CheckCapabilities(response.capabilities)
         IN  IF ~checked.ok THEN [res |-> checked, sent |-> <<"initialize">>]
             ELSE [res |-> ResultContext(initialized, "set init response"),
                   sent |-> <<"initialize", "initialized">>]

(***************************************************************************)
(* main.rs                                                                 *)
(***************************************************************************)
\* futures::future::Fuse::poll on the future of service.waiting(): Pending
\* for ever once it has completed, else the inner future's poll
FusePoll(terminated, svc) ==
    IF terminated THEN "Pending"
    ELSE IF svc = "quit_ok" THEN "Ok"
    ELSE IF svc = "quit_err" THEN "Err"
    ELSE "Pending"

\* Termination::report of main_async's result and the exit code main makes of
\* it: 0 for ExitCode::SUCCESS, 1 otherwise
Report(r) == IF r.ok THEN 0 ELSE 1

(***************************************************************************)
(* io_intercept.rs                                                         *)
(***************************************************************************)
\* enum Message
Data(bytes) == [kind |-> "Data", data |-> bytes]
Flush == [kind |-> "Flush", data |-> <<>>]
Shutdown == [kind |-> "Shutdown", data |-> <<>>]

\* self.tx.send(msg).ok(): the message is queued if the receiver is alive,
\* else the error is dropped
Send(channel, alive, msg) == IF alive THEN Append(channel, msg) ELSE channel

\* the whole buffer instead of what was written
WrittenBytesWhole(buf, written) == buf
\* buf[..written].to_owned()
WrittenBytes(buf, written) == SubSeq(buf, 1, written)

\* ReadBuf: its capacity and its filled part
ReadBuf(capacity, filled) == [capacity |-> capacity, filled |-> filled]
Remaining(buf) == buf.capacity - Len(buf.filled)

\* let pos_pre = buf.capacity() - buf.remaining()
PosPre(buf) == buf.capacity - Remaining(buf)

\* buf.filled()[pos_pre..].to_owned()
FilledFrom(buf, pos_pre) == SubSeq(buf.filled, pos_pre + 1, Len(buf.filled))

\* the result of a poll of the inner stream: Pending, or Ready with Ok or Err
Poll(answer, written) == [result |-> answer, written |-> written]

\* UnboundedSender::send: it never waits; an error if the receiver is gone
SendOk(alive) == alive

\* a fork that hands the error of send to its caller
MapOkSendChecked(polled, sent) ==
    IF polled.result = "Ok" /\ ~sent THEN Poll("Err", 0) ELSE polled
\* inner.poll_*(..).map_ok(|x| { self.tx.send(..).ok(); x }): what the fork
\* returns is the inner stream's answer; .ok() drops the result of send
MapOk(polled, sent) == polled

\* WriteFork::poll_write: the message it sends for the inner stream's answer
poll_write(channel, alive, buf, polled) ==
    IF polled.result = "Ok"
    THEN Send(channel, alive, Data(WrittenBytes(buf, polled.written)))
    ELSE channel

\* WriteFork::poll_flush
poll_flush(channel, alive, polled) ==
    IF polled.result = "Ok" THEN Send(channel, alive, Flush) ELSE channel

\* WriteFork::poll_shutdown
poll_shutdown(channel, alive, polled) ==
    IF polled.result = "Ok" THEN Send(channel, alive, Shutdown) ELSE channel

\* ReadFork::poll_read: pos_pre is taken before the inner poll, buf is the
\* buffer after it
poll_read(channel, alive, pos_pre, buf, polled) ==
    IF polled.result = "Ok"
    THEN Send(channel, alive, Data(FilledFrom(buf, pos_pre)))
    ELSE channel

\* no TaskManager
TasksIdle ==
    /\ spawned = {}
    /\ finished = <<>>
    /\ joined = <<>>
    /\ cancel = FALSE
    /\ tm_pc = "idle"
    /\ run_error = None
    /\ shutdown_res = Ok
    /\ ended = <<>>

\* main_async has not started
MainIdle ==
    /\ main_pc = "idle"
    /\ inner_pc = "idle"
    /\ inner_res = Ok
    /\ service = "none"
    /\ fuse = FALSE
    /\ sigterm = FALSE
    /\ main_res = Ok
    /\ outcomes = <<>>
    /\ trace = <<>>
    /\ exit_code = None
    /\ init_resp = None

\* no fork
IoIdle ==
    /\ io_inner = <<>>
    /\ io_filled = <<>>
    /\ io_tee = [write |-> <<>>, read |-> <<>>]
    /\ io_op = None
    /\ io_rx = {}
    /\ io_ret = None

\* no progress future
FwdIdle ==
    /\ progress_token = None
    /\ published = <<>>
    /\ notified = <<>>
    /\ progress_counter = 0

\* the subscription of the progress task is registered
StartIdle ==
    /\ sub_pc = "subscribed"
    /\ emitted = <<>>
    /\ missed = <<>>

\* no TokenModifers, no BitIter and no error to format
PureIdle ==
    /\ bi_legend = <<>>
    /\ bi_bitset = 0
    /\ bi_remaining = 0
    /\ bi_yielded = <<>>
    /\ bi_hints = <<>>
    /\ bi_modifiers = None
    /\ fe_chain = <<>>
    /\ fe_out = None

\* no background writer
WrIdle ==
    /\ wr_pc = "none"
    /\ wr_rx = <<>>
    /\ wr_tx = FALSE
    /\ wr_file = [data |-> <<>>, flushed |-> TRUE, open |-> FALSE]
    /\ wr_res = None
    /\ wr_sent = <<>>

\* before ProgressGuard::start
GuardIdle ==
    /\ init_parts = {}
    /\ running = {}
    /\ rdy = InitialReady
    /\ evt = ""
    /\ evt_unseen = FALSE
    /\ progress = None
    /\ progress_task = None
    /\ lease = None
    /\ begun = {}

SearchIdle ==
    /\ chkQuery = <<>>
    /\ chkCandidate = <<>>
    /\ chkResult = None

TokensIdle ==
    /\ file_content = <<>>
    /\ tokens = <<>>
    /\ decoded = None
    /\ lookup = None
    /\ found = None

ToolsIdle ==
    /\ pc = "idle"
    /\ req = None
    /\ lsp_sent = <<>>
    /\ lsp_resp = None
    /\ locals = None
    /\ result = None
    /\ served = None
    /\ lsp_answers = <<>>

InitSearch ==
    /\ chkQuery \in SeqsUpTo(Alphabet, MaxLen)
    /\ chkCandidate \in SeqsUpTo(Alphabet, MaxLen)
    /\ chkResult = None
    /\ overflow_checks = FALSE
    /\ TokensIdle
    /\ ToolsIdle
    /\ GuardIdle
    /\ TasksIdle
    /\ MainIdle
    /\ IoIdle
    /\ FwdIdle
    /\ StartIdle
    /\ PureIdle
    /\ WrIdle

\* one call of check in each mode on the drawn strings
Check ==
    /\ chkResult = None
    /\ chkResult' = Some([mode \in SearchModes |-> check(mode, chkQuery, chkCandidate)])
    /\ UNCHANGED <<chkQuery, chkCandidate, tokenVars, overflow_checks, sysVars, guardVars, toolVars>>

NextSearch == Check

SpecSearch == InitSearch /\ [][NextSearch]_vars

(***************************************************************************)
(* Spec: the tool handlers, one call at a time                             *)
(***************************************************************************)
\* arguments of find_symbol and symbol_info
OptionBool == {None, Some(TRUE), Some(FALSE)}
QueryArgs == {None, Some(<<>>), Some(<<"a", "b">>)}
FileArgs ==
    {None, Some(""), Some("src/lib.rs"), Some("/ws/src/lib.rs"),
     Some("does_not_exist.rs"), Some("src"), Some("my file.rs")}
SymbolInfoFileArgs ==
    {Some(""), Some("src/lib.rs"), Some("does_not_exist.rs"), Some("src"),
     Some("my file.rs")}
NameArgs == { <<"a">>, <<"E">> }
LineArgs == {None, Some(1)}
CharacterArgs == {None, Some(2)}

ToolRequest(tool, query, file, fuzzy, workspace_and_dependencies, name, line, character) ==
    [tool |-> tool, query |-> query, file |-> file, fuzzy |-> fuzzy,
     workspace_and_dependencies |-> workspace_and_dependencies,
     name |-> name, line |-> line, character |-> character]

\* lsp_types::Location: a URI path and the start of the range
Location(path, line, character) == [path |-> path, line |-> line, character |-> character]

\* locations the server reports: in the workspace, in a dependency, and with
\* a URI path that is not absolute
LocIn == Location(Path(TRUE, <<"ws", "src", "lib.rs">>), 2, 1)
LocOut == Location(Path(TRUE, <<"dep", "lib.rs">>), 0, 3)
LocRel == Location(Path(FALSE, <<"Untitled-1">>), 0, 0)

\* lsp_types::SymbolInformation; deprecated: tags holds SymbolTag::DEPRECATED
SymbolInformations ==
    [name : { <<"a", "b">>, <<"a", "x", "b">> }, kind : {"Function"},
     deprecated : {FALSE}, location : {LocIn, LocOut, LocRel}]

\* answers to documentSymbol and workspace/symbol
SymbolResponses ==
    { [kind |-> k, symbols |-> <<>>] : k \in {"Err", "Null", "Nested"} }
    \cup { [kind |-> "Flat", symbols |-> l] : l \in SeqsUpTo(SymbolInformations, MaxSymbols) }

\* answers to semanticTokens/full: a failure, null, a partial result, and
\* streams over the file "aa\naa": none, two tokens "a" on the first line, a
\* type outside the legend, and a delta that overflows the column
RawToken(delta_line, delta_start, length, token_type) ==
    [delta_line |-> delta_line, delta_start |-> delta_start, length |-> length,
     token_type |-> token_type, token_modifiers_bitset |-> 1]

SemanticTokensResponses ==
    { [kind |-> k, data |-> <<>>] : k \in {"Err", "Null", "Partial", "Tokens"} }
    \cup { [kind |-> "Tokens", data |-> d] :
            d \in { <<RawToken(0, 0, 1, 0), RawToken(0, 1, 1, 0)>>,
                    <<RawToken(0, 0, 1, Len(token_types))>>,
                    <<RawToken(0, 1, 1, 0), RawToken(0, U32Max, 1, 0)>> } }

\* answers to the six requests of symbol_info_for_token
Answer(kind, items, locations) == [kind |-> kind, items |-> items, locations |-> locations]

\* what the server may answer to a location request that it does not answer
\* with null: a location in the workspace and one in a dependency, only one in
\* a dependency, a single location, an empty list
LocationAnswers ==
    { Answer("Array", <<>>, <<LocIn, LocOut>>), Answer("Array", <<>>, <<LocOut>>),
      Answer("Scalar", <<>>, <<LocIn>>), Answer("Array", <<>>, <<>>) }

\* the requests among declaration .. references that the server answers with
\* null: none, one of them, or all
NullPatterns == { {} } \cup { {k} : k \in 2..6 } \cup { 2..6 }

\* hover fails or is null (nothing else is asked), or hover has contents and
\* each other request is answered with null or with one of LocationAnswers;
\* the answer to references is always a list
TokenAnswers ==
    { [k \in 1..6 |-> IF k = 1 THEN Answer(h, <<>>, <<>>) ELSE Answer("Null", <<>>, <<>>)] :
        h \in {"Err", "Null"} }
    \cup
    { [k \in 1..6 |->
        IF k = 1 THEN Answer("Scalar", <<[language |-> "", value |-> " docs \n"]>>, <<>>)
        ELSE IF k \in nulls THEN Answer("Null", <<>>, <<>>)
        ELSE IF k = 6 THEN Answer("Array", <<>>, a.locations)
        ELSE a] : nulls \in NullPatterns, a \in LocationAnswers }

Init ==
    /\ overflow_checks \in BOOLEAN
    /\ SearchIdle
    /\ TokensIdle
    /\ ToolsIdle
    /\ GuardIdle
    /\ TasksIdle
    /\ MainIdle
    /\ IoIdle
    /\ FwdIdle
    /\ StartIdle
    /\ PureIdle
    /\ WrIdle

\* the handler returns r: the call is over
Returns(r) ==
    /\ pc' = "done"
    /\ result' = Some(r)

\* the handler sends request m and awaits the answer at position p
Sends(m, p) ==
    /\ pc' = p
    /\ lsp_sent' = Append(lsp_sent, m)
    /\ result' = None

\* find_symbol is called and runs to its LSP request or its early return
CallFindSymbol ==
    /\ pc = "idle"
    /\ \E query \in QueryArgs, file \in FileArgs, fuzzy \in OptionBool,
          workspace_and_dependencies \in OptionBool :
        LET request == ToolRequest("find_symbol", query, file, fuzzy,
                                   workspace_and_dependencies, <<>>, None, None)
            begin == FindSymbolBegin(request)
        IN  /\ req' = Some(request)
            /\ IF IsSome(begin.ret)
               THEN Returns(Unwrap(begin.ret)) /\ UNCHANGED lsp_sent
               ELSE Sends(Unwrap(begin.send), "find_symbol")
    /\ UNCHANGED <<lsp_resp, locals, served, lsp_answers, searchVars, tokenVars,
                   overflow_checks, sysVars, guardVars>>

\* the server answers documentSymbol or workspace/symbol; find_symbol returns
FindSymbolResponse ==
    /\ pc = "find_symbol"
    /\ \E resp \in SymbolResponses :
        /\ lsp_resp' = Some(resp)
        /\ Returns(FindSymbolEnd(Unwrap(req), lsp_sent[1], resp))
    /\ UNCHANGED <<req, lsp_sent, locals, served, lsp_answers, searchVars, tokenVars,
                   overflow_checks, sysVars, guardVars>>

\* symbol_info is called and runs to its semanticTokens request or early return
CallSymbolInfo ==
    /\ pc = "idle"
    /\ \E file \in SymbolInfoFileArgs, name \in NameArgs, line \in LineArgs,
          character \in CharacterArgs, workspace_and_dependencies \in OptionBool :
        LET request == ToolRequest("symbol_info", None, file, None,
                                   workspace_and_dependencies, name, line, character)
            begin == SymbolInfoBegin(request)
        IN  /\ req' = Some(request)
            /\ IF IsSome(begin.ret)
               THEN Returns(Unwrap(begin.ret)) /\ UNCHANGED lsp_sent
               ELSE Sends(Unwrap(begin.send), "symbol_info")
    /\ UNCHANGED <<lsp_resp, locals, served, lsp_answers, searchVars, tokenVars,
                   overflow_checks, sysVars, guardVars>>

\* the server answers semanticTokens/full; symbol_info decodes, queries, and
\* returns at once if there is an error or no candidate token
SemanticTokensResponse ==
    /\ pc = "symbol_info"
    /\ \E resp \in SemanticTokensResponses :
        LET got == SymbolInfoTokens(Unwrap(req), resp, overflow_checks)
        IN  /\ lsp_resp' = Some(resp)
            /\ IF IsSome(got.ret) THEN Returns(Unwrap(got.ret)) /\ locals' = None
               ELSE IF got.candidates = <<>> THEN Returns(Success(<<>>)) /\ locals' = None
               ELSE /\ pc' = "symbol_info_for_token"
                    /\ locals' = Some([tokens |-> got.candidates, next |-> 1,
                                       results |-> <<>>])
                    /\ result' = None
    /\ UNCHANGED <<req, lsp_sent, served, lsp_answers, searchVars, tokenVars,
                   overflow_checks, sysVars, guardVars>>

\* one turn of `for token in tokens`: the server answers the requests of
\* symbol_info_for_token; after the last token symbol_info returns
SymbolInfoForToken ==
    /\ pc = "symbol_info_for_token"
    /\ \E answers \in TokenAnswers :
        LET l == Unwrap(locals)
            request == Unwrap(req)
            res == symbol_info_for_token(l.tokens[l.next], Unwrap(request.file), answers,
                        UnwrapOrDefault(request.workspace_and_dependencies))
            results == IF res.kind = "Some" THEN Append(l.results, Text(res.text))
                       ELSE l.results
        IN  /\ lsp_sent' = lsp_sent \o res.sent
            /\ lsp_answers' = Append(lsp_answers, answers)
            /\ IF res.kind = "Err"
               THEN Returns(res.err) /\ locals' = None
               ELSE IF l.next = Len(l.tokens)
               THEN Returns(Success(results)) /\ locals' = None
               ELSE /\ locals' = Some([l EXCEPT !.next = l.next + 1, !.results = results])
                    /\ UNCHANGED <<pc, result>>
    /\ UNCHANGED <<req, lsp_resp, served, searchVars, tokenVars, overflow_checks, sysVars, guardVars>>

\* how a call ended, as the MCP client sees it
Outcome(r) ==
    CASE r.kind = "McpError" -> "protocol_error"
      [] r.kind = "Panic" -> "panic"
      [] r.is_error -> "tool_error"
      [] OTHER -> "success"

\* the call is over; the server waits for the next one
Serve ==
    /\ pc = "done"
    /\ served' = Some(Outcome(Unwrap(result)))
    /\ pc' = "idle"
    /\ req' = None
    /\ lsp_sent' = <<>>
    /\ lsp_resp' = None
    /\ lsp_answers' = <<>>
    /\ result' = None
    /\ UNCHANGED <<locals, searchVars, tokenVars, overflow_checks, sysVars, guardVars>>

Next ==
    \/ CallFindSymbol
    \/ FindSymbolResponse
    \/ CallSymbolInfo
    \/ SemanticTokensResponse
    \/ SymbolInfoForToken
    \/ Serve

Spec == Init /\ [][Next]_vars

\* find_symbol has returned after a flat answer of the server
FindSymbolFiltered ==
    /\ pc = "done"
    /\ Unwrap(req).tool = "find_symbol"
    /\ IsSome(lsp_resp)
    /\ Unwrap(lsp_resp).kind = "Flat"

\* the query and mode find_symbol filters with
EffectiveQuery == IF Unwrap(req).query \in {None, Some(<<>>)} THEN None ELSE Unwrap(req).query
EffectiveMode == IF Unwrap(req).fuzzy = Some(TRUE) THEN "Fuzzy" ELSE "Exact"

\* the filter result over the raw list of the answer, workspace only (FALSE)
\* or with dependencies included (TRUE)
FilterResult(with_dependencies) ==
    JsonContent(filter_symbol_informations(Unwrap(lsp_resp).symbols, EffectiveQuery,
                                           EffectiveMode, with_dependencies))

\* C1: over a fixed raw symbol list, find_symbol returns the filter result with
\* dependencies included when the caller omits workspace_and_dependencies and
\* the workspace-only result is empty, the workspace-only result when the
\* caller omits it and that result is not empty, the workspace-only result
\* (even if empty) when the caller passes false, and the result with
\* dependencies included when the caller passes true.
C1_AutoExpandOnlyWhenUnset ==
    FindSymbolFiltered =>
        LET orig == Unwrap(req).workspace_and_dependencies
            content == Unwrap(result).content
        IN  /\ Unwrap(result).kind = "CallToolResult"
            /\ ~Unwrap(result).is_error
            /\ (orig = None /\ FilterResult(FALSE) = <<>>) => content = FilterResult(TRUE)
            /\ (orig = None /\ FilterResult(FALSE) /= <<>>) => content = FilterResult(FALSE)
            /\ orig = Some(FALSE) => content = FilterResult(FALSE)
            /\ orig = Some(TRUE) => content = FilterResult(TRUE)

\* the caller omitted the scope, nothing in the workspace matched, and the
\* result holds a symbol of a dependency
C1_Witness ==
    /\ FindSymbolFiltered
    /\ Unwrap(req).workspace_and_dependencies = None
    /\ FilterResult(FALSE) = <<>>
    /\ Unwrap(result).content /= <<>>

\* the scope the returned result was filtered with
EffectiveScope ==
    IF Unwrap(req).workspace_and_dependencies = None
    THEN FilterResult(FALSE) = <<>>
    ELSE Unwrap(req).workspace_and_dependencies = Some(TRUE)

\* the entries a raw list must give: nothing for a symbol the query rejects, or
\* one outside the workspace that was not searched for; else the symbol with
\* the workspace-relative file inside the workspace and the absolute file
\* outside it
RECURSIVE ExpectedEntries(_, _)
ExpectedEntries(symbols, with_dependencies) ==
    IF symbols = <<>> THEN <<>>
    ELSE
    LET si == Head(symbols)
        matches == EffectiveQuery = None
                   \/ check(EffectiveMode, Unwrap(EffectiveQuery), si.name)
        file == CASE si.location = LocIn -> Some("src/lib.rs")
                  [] si.location = LocOut ->
                        IF with_dependencies THEN Some("/dep/lib.rs") ELSE None
                  [] OTHER -> Some("Untitled-1")
    IN  (IF matches /\ IsSome(file)
         THEN <<Json([name |-> si.name, kind |-> si.kind, deprecated |-> si.deprecated,
                      file |-> Unwrap(file), line |-> si.location.line + 1,
                      character |-> si.location.character + 1])>>
         ELSE <<>>)
        \o ExpectedEntries(Tail(symbols), with_dependencies)

\* C2: a location with an absolute path inside the workspace is emitted with
\* the workspace-relative path, whatever workspace_and_dependencies is; one
\* outside the workspace is emitted with its absolute path when
\* workspace_and_dependencies is true and is omitted when it is false.
C2_LocationRelativity ==
    FindSymbolFiltered =>
        Unwrap(result).content = ExpectedEntries(Unwrap(lsp_resp).symbols, EffectiveScope)

\* one result holds a workspace-relative file and an absolute one
C2_Witness ==
    /\ FindSymbolFiltered
    /\ Len(Unwrap(result).content) = 2
    /\ Unwrap(result).content[1].json.file = "src/lib.rs"
    /\ Unwrap(result).content[2].json.file = "/dep/lib.rs"

\* C3: find_symbol with file absent or empty and query absent or empty returns
\* invalid_params "query is required" and sends no request to the language
\* server; an empty query or file is treated exactly like an absent one.
C3_QueryRequired ==
    (pc \in {"done", "find_symbol"} /\ Unwrap(req).tool = "find_symbol") =>
        LET r == Unwrap(req)
        IN  /\ (r.file \in {None, Some("")} /\ r.query \in {None, Some(<<>>)}) =>
                /\ pc = "done"
                /\ Unwrap(result) = McpError("invalid_params", "query is required")
                /\ lsp_sent = <<>>
            \* an empty file: the workspace is searched, as without a file
            /\ (r.file \in {None, Some("")} /\ r.query \notin {None, Some(<<>>)}) =>
                /\ Len(lsp_sent) = 1
                /\ lsp_sent[1].method = "workspace/symbol"
                /\ lsp_sent[1].query = Unwrap(r.query)
            \* an empty query: the symbols of the file are not filtered by name
            /\ (r.file = Some("src/lib.rs") /\ r.query \in {None, Some(<<>>)}) =>
                /\ Len(lsp_sent) = 1
                /\ lsp_sent[1].method = "textDocument/documentSymbol"
                /\ FindSymbolFiltered =>
                    Len(Unwrap(result).content) >=
                        Cardinality({i \in 1..Len(Unwrap(lsp_resp).symbols) :
                                        Unwrap(lsp_resp).symbols[i].location = LocIn})

\* both arguments are the empty string and the call is refused
C3_Witness ==
    /\ pc = "done"
    /\ Unwrap(req).tool = "find_symbol"
    /\ Unwrap(req).file = Some("")
    /\ Unwrap(req).query = Some(<<>>)
    /\ Unwrap(result).code = "invalid_params"

\* symbol_info has returned after asking about every candidate token, and no
\* request has failed
SymbolInfoSpliced ==
    /\ pc = "done"
    /\ Unwrap(req).tool = "symbol_info"
    /\ lsp_answers /= <<>>
    /\ \A i \in 1..Len(lsp_answers) : lsp_answers[i][1].kind /= "Err"

\* the candidate tokens of the call, in the order Document.query returned them
Candidates == SymbolInfoTokens(Unwrap(req), Unwrap(lsp_resp), overflow_checks).candidates

\* the scope symbol_info formats locations with
InfoScope == Unwrap(req).workspace_and_dependencies = Some(TRUE)

\* the first section of the item of a candidate
ExpectedHeader(token) ==
    "Token:\n\n- location: src/lib.rs:" \o ToString(token.line) \o ":"
        \o ToString(token.character) \o "\n- type: function\n- modifiers: declaration"

\* the sections of declaration .. references, a null answer giving none;
\* Section(k, answer) is the text of a section
SectionsOf(answers, Section(_, _)) ==
    LET S(k) == IF answers[k].kind = "Null" THEN <<>> ELSE <<Section(k, answers[k])>>
    IN  S(2) \o S(3) \o S(4) \o S(5) \o S(6)

\* the candidates from i on whose hover is not null, in order
RECURSIVE SurvivorsFrom(_)
SurvivorsFrom(i) ==
    IF i > Len(lsp_answers) THEN <<>>
    ELSE (IF lsp_answers[i][1].kind = "Null" THEN <<>> ELSE <<i>>) \o SurvivorsFrom(i + 1)

\* one item per candidate with a hover: its header, the hover text and its
\* sections, joined by rules
ItemsFrom(i, Section(_, _)) ==
    LET survivors == SurvivorsFrom(i)
    IN  [j \in 1..Len(survivors) |->
            Text(JoinLines(<<ExpectedHeader(Candidates[survivors[j]]), "docs">>
                               \o SectionsOf(lsp_answers[survivors[j]], Section),
                           "\n\n---\n\n"))]

\* the requests the candidates from i on may cause: hover, and the five others
\* only after a hover that is not null
RECURSIVE MethodsFrom(_)
MethodsFrom(i) ==
    IF i > Len(lsp_answers) THEN <<>>
    ELSE <<"textDocument/hover">>
         \o (IF lsp_answers[i][1].kind = "Null" THEN <<>>
             ELSE << "textDocument/declaration", "textDocument/definition",
                     "textDocument/implementation", "textDocument/typeDefinition",
                     "textDocument/references" >>)
         \o MethodsFrom(i + 1)

\* the section the handler adds for the answer to request k
AddedSection(k, answer) == TokenSections(k, answer, InfoScope)[1]

\* C11: in symbol_info, a candidate whose hover is null gives no content item
\* and causes no declaration, definition, implementation, typeDefinition or
\* references request; a candidate whose hover is not null gives its item, and
\* each other request answered with null only leaves out its own section.
C11_NullHoverSkipsCandidate ==
    SymbolInfoSpliced =>
        /\ Len(lsp_answers) = Len(Candidates)
        /\ Unwrap(result).kind = "CallToolResult"
        /\ ~Unwrap(result).is_error
        /\ Len(Unwrap(result).content) =
                Cardinality({i \in 1..Len(lsp_answers) : lsp_answers[i][1].kind /= "Null"})
        /\ [j \in 1..Len(lsp_sent) |-> lsp_sent[j].method] =
                <<"textDocument/semanticTokens/full">> \o MethodsFrom(1)
        /\ Unwrap(result).content = ItemsFrom(1, AddedSection)

\* of two candidates the first has no hover and the second has one but no
\* declaration: one item is returned
C11_Witness ==
    /\ SymbolInfoSpliced
    /\ Len(lsp_answers) = 2
    /\ lsp_answers[1][1].kind = "Null"
    /\ lsp_answers[2][1].kind /= "Null"
    /\ lsp_answers[2][2].kind = "Null"
    /\ lsp_answers[2][3].kind /= "Null"
    /\ Len(Unwrap(result).content) = 1

\* what the handler writes under the title of request k
SectionBody(k, answer) ==
    IF k = 6
    THEN LET lines == FormatLocations(answer.locations, workspace, InfoScope)
         IN  IF lines = <<>> THEN "None" ELSE JoinLines(lines, "\n")
    ELSE format(answer, workspace, InfoScope)

\* the sections in the fixed order, each under its title
TitledSection(k, answer) ==
    (CASE k = 2 -> "Declarations"
       [] k = 3 -> "Definitions"
       [] k = 4 -> "Implementations"
       [] k = 5 -> "Type Definitions"
       [] OTHER -> "References") \o ":\n" \o SectionBody(k, answer)

\* C12: symbol_info returns one text item per candidate token with a hover
\* that is not null, in the order of Document.query, and in each item the
\* sections come in the order Token, hover, Declarations, Definitions,
\* Implementations, Type Definitions, References, omitted sections skipped;
\* the requests are awaited one after the other, so the timing of the answers
\* cannot change the order.
C12_ItemsAndSectionsInOrder ==
    SymbolInfoSpliced =>
        /\ Unwrap(result) = Success(ItemsFrom(1, TitledSection))
        /\ \A j \in 2..Len(lsp_sent) :
                lsp_sent[j].method = MethodsFrom(1)[j - 1]

\* two candidates with all sections: two items, the first for the first
C12_Witness ==
    /\ SymbolInfoSpliced
    /\ Len(Unwrap(result).content) = 2
    /\ Candidates[1].character < Candidates[2].character
    /\ \A i \in 1..2 : \A k \in 1..6 : lsp_answers[i][k].kind /= "Null"

\* the body the sections should have: a line "- <location>" for each location
\* that is emitted, and "None" if there is none
ListedLocations(k, answer) ==
    LET lines == FormatLocations(answer.locations, workspace, InfoScope)
    IN  (CASE k = 2 -> "Declarations"
           [] k = 3 -> "Definitions"
           [] k = 4 -> "Implementations"
           [] k = 5 -> "Type Definitions"
           [] OTHER -> "References") \o ":\n"
        \o (IF lines = <<>> THEN "None" ELSE JoinLines(lines, "\n"))

\* C13: in a symbol_info item the body of a Declarations, Definitions,
\* Implementations, Type Definitions or References section is one line
\* "- <location>" per emitted location, and "None" whenever no location is
\* emitted, also when every location the server gave was dropped for lying
\* outside the workspace and when the answer is a single location.
C13_SectionBodies ==
    SymbolInfoSpliced => Unwrap(result).content = ItemsFrom(1, ListedLocations)

\* the file argument of the call in progress names a file that does not exist
FileDoesNotExist ==
    /\ IsSome(req)
    /\ Unwrap(req).file \notin {None, Some("")}
    /\ ReadToString(Unwrap(Unwrap(req).file)).kind = "NotFound"

\* C4: when the file argument of find_symbol or symbol_info names a file that
\* does not exist, the tool returns a successful MCP response with
\* is_error = true and the single text item "file not found: <file>", no
\* request is sent to the language server for that file, and the server keeps
\* serving later tool calls.
C4_FileNotFound ==
    /\ FileDoesNotExist =>
        /\ pc = "done"
        /\ Unwrap(result).kind = "CallToolResult"
        /\ Unwrap(result).is_error
        /\ Unwrap(result).content = <<Text("file not found: does_not_exist.rs")>>
        /\ lsp_sent = <<>>
    /\ (pc = "idle" /\ served = Some("tool_error")) =>
        ENABLED CallFindSymbol /\ ENABLED CallSymbolInfo

\* a call after a "file not found" answer returns symbols
C4_Witness ==
    /\ served = Some("tool_error")
    /\ pc = "done"
    /\ Unwrap(result).kind = "CallToolResult"
    /\ ~Unwrap(result).is_error
    /\ Unwrap(result).content /= <<>>

\* C7: in find_symbol a null answer of the language server, to documentSymbol
\* or to workspace/symbol, gives a successful empty result, and a nested answer
\* gives the internal error "nested symbols are not yet implemented" with no
\* partial result.
C7_NullAndNestedResponses ==
    (pc = "done" /\ Unwrap(req).tool = "find_symbol" /\ IsSome(lsp_resp)) =>
        /\ Unwrap(lsp_resp).kind = "Null" =>
            Unwrap(result) = Success(<<>>)
        /\ Unwrap(lsp_resp).kind = "Nested" =>
            /\ Unwrap(result).kind = "McpError"
            /\ Unwrap(result).code = "internal_error"
            /\ Unwrap(result).message = "nested symbols are not yet implemented"
            /\ Unwrap(result).content = <<>>

\* a nested answer to documentSymbol is refused
C7_Witness ==
    /\ pc = "done"
    /\ IsSome(lsp_resp)
    /\ Unwrap(lsp_resp).kind = "Nested"
    /\ lsp_sent[1].method = "textDocument/documentSymbol"
    /\ Unwrap(result).kind = "McpError"

(***************************************************************************)
(* SpecGuard: the progress task and a tool call that waits for readiness   *)
(***************************************************************************)
\* the tokens of the notifications: the expected ones, a number and a string
\* that is not expected
ProgressTokens ==
    { String(s) : s \in init_progress_parts } \cup { Number(1), String("rustAnalyzer/Indexing") }

\* $/progress notifications
Notifications ==
    [kind : {"Begin", "Report", "End"}, token : ProgressTokens, title : {"Indexing"},
     percentage : {50}]

\* ProgressGuard::start has run: the channels hold their first values and the
\* task waits for its first notification; no tool call yet
InitGuard ==
    /\ init_parts = init_progress_parts
    /\ running = {}
    /\ rdy = InitialReady
    /\ evt = ""
    /\ evt_unseen = FALSE
    /\ progress = None
    /\ progress_task = None
    /\ lease = None
    /\ begun = {}
    /\ overflow_checks = FALSE
    /\ SearchIdle
    /\ TokensIdle
    /\ ToolsIdle
    /\ TasksIdle
    /\ MainIdle
    /\ IoIdle
    /\ FwdIdle
    /\ StartIdle
    /\ PureIdle
    /\ WrIdle

\* the task receives notification n: it ends with the error of ensure!, or
\* updates its sets, publishes the event and the readiness state
ReceiveStep(n) ==
    /\ progress_task = None
    /\ progress' = Some(n)
    /\ LET r == ProcessProgress(init_parts, running, n)
       IN  IF r.ok
           THEN /\ init_parts' = r.parts
                /\ running' = r.run
                /\ evt' = r.event
                /\ evt_unseen' = TRUE
                /\ rdy' = NewReady(r.parts, r.run)
                /\ begun' = IF n.kind = "Begin" THEN begun \cup {n.token} ELSE begun
                /\ UNCHANGED progress_task
           ELSE /\ progress_task' = Some([ok |-> FALSE, err |-> r.err])
                /\ UNCHANGED <<init_parts, running, evt, evt_unseen, rdy, begun>>

Receive(n) ==
    /\ ReceiveStep(n)
    /\ UNCHANGED <<lease, toolVars, searchVars, tokenVars, overflow_checks, sysVars>>

ReceiveProgress == \E n \in Notifications : Receive(n)

\* subscription.next() yields None: the task returns Ok(())
SubscriptionEnds ==
    /\ progress_task = None
    /\ progress_task' = Some([ok |-> TRUE, err |-> ""])
    /\ UNCHANGED <<init_parts, running, rdy, evt, evt_unseen, progress, lease, begun,
                   toolVars, searchVars, tokenVars, overflow_checks, sysVars>>

\* subscription.next() yields an error: the task returns it
ReceiveError ==
    /\ progress_task = None
    /\ progress_task' = Some([ok |-> FALSE, err |-> "receive progress"])
    /\ UNCHANGED <<init_parts, running, rdy, evt, evt_unseen, progress, lease, begun,
                   toolVars, searchVars, tokenVars, overflow_checks, sysVars>>

\* a tool is called: the handler enters wait_for_client; its event stream
\* starts at the changes to come
CallTool ==
    /\ pc = "idle"
    /\ pc' = "wait_for_client"
    /\ evt_unseen' = FALSE
    /\ UNCHANGED <<req, lsp_sent, lsp_resp, locals, result, served, lsp_answers,
                   init_parts, running, rdy, evt, progress, progress_task, lease, begun,
                   searchVars, tokenVars, overflow_checks, sysVars>>

\* the waiting call takes the changed event and notifies the MCP client
ForwardEvent ==
    /\ pc = "wait_for_client"
    /\ evt_unseen
    /\ evt_unseen' = FALSE
    /\ UNCHANGED <<toolVars, init_parts, running, rdy, evt, progress, progress_task,
                   lease, begun, searchVars, tokenVars, overflow_checks, sysVars>>

\* ProgressGuard::wait returns the guard: wait_for has ended, with Ok or Err
WaitReturns ==
    /\ pc = "wait_for_client"
    /\ LET res == WaitFor(rdy, IsSome(progress_task))
       IN  /\ res /= "Pending"
           /\ lease' = Some([wait_for |-> res, observed |-> rdy])
    /\ pc' = "leased"
    /\ UNCHANGED <<req, lsp_sent, lsp_resp, locals, result, served, lsp_answers,
                   init_parts, running, rdy, evt, evt_unseen, progress, progress_task,
                   begun, searchVars, tokenVars, overflow_checks, sysVars>>

\* the handler sends an LSP request through the guard
SendRequest ==
    /\ pc = "leased"
    /\ Len(lsp_sent) < MaxRequests
    /\ lsp_sent' = Append(lsp_sent,
            Request(IF lsp_sent = <<>> THEN "textDocument/semanticTokens/full"
                    ELSE TokenMethods[Len(lsp_sent)], "", <<>>, "", 0, 0))
    /\ UNCHANGED <<pc, req, lsp_resp, locals, result, served, lsp_answers, guardVars,
                   searchVars, tokenVars, overflow_checks, sysVars>>

\* the handler returns and drops the guard
ToolReturns ==
    /\ pc = "leased"
    /\ pc' = "idle"
    /\ lsp_sent' = <<>>
    /\ lease' = None
    /\ UNCHANGED <<req, lsp_resp, locals, result, served, lsp_answers,
                   init_parts, running, rdy, evt, evt_unseen, progress, progress_task,
                   begun, searchVars, tokenVars, overflow_checks, sysVars>>

NextGuard ==
    \/ ReceiveProgress
    \/ SubscriptionEnds
    \/ ReceiveError
    \/ CallTool
    \/ ForwardEvent
    \/ WaitReturns
    \/ SendRequest
    \/ ToolReturns

SpecGuard == InitGuard /\ [][NextGuard]_vars

\* C14: the published readiness state starts as init_done = false and
\* no_work_in_flight = true, and after every notification the task has
\* processed it says whether the expected set is empty and whether the running
\* set is empty; ready is true exactly when both flags are true.
C14_ReadyMirrorsSets ==
    /\ progress = None => rdy = [init |-> FALSE, progress |-> TRUE]
    /\ (IsSome(progress) /\ (progress_task = None \/ Unwrap(progress_task).ok)) =>
            rdy = [init |-> init_parts = {}, progress |-> running = {}]
    /\ ready(rdy) <=> rdy = [init |-> TRUE, progress |-> TRUE]

\* the server is initialised and has work in flight
C14_Witness ==
    /\ IsSome(progress)
    /\ progress_task = None
    /\ rdy.init
    /\ ~rdy.progress

\* C15: over any sequence of notifications the published init_done flag goes
\* from false to true at most once and never goes back to false.
C15_InitDoneStaysTrue == [][rdy.init => rdy'.init]_vars

\* init_done is true and a Begin has been processed after it became true
C15_Witness ==
    /\ rdy.init
    /\ IsSome(progress)
    /\ Unwrap(progress).kind = "Begin"
    /\ Unwrap(progress).token = Number(1)
    /\ Number(1) \in running
    /\ \A s \in init_progress_parts : String(s) \notin running

\* C16: the expected set only shrinks: a Begin with a string token removes
\* that string (nothing if it is not in the set), and a Begin with a number,
\* a Report and an End leave the set as it is; so init_done is true exactly
\* once every expected token has had a Begin, whether or not it has ended.
C16_ExpectedInitShrinks ==
    /\ [](rdy.init <=> \A s \in init_progress_parts : String(s) \in begun)
    /\ [][\A n \in Notifications :
            (Receive(n) /\ progress_task' = None) =>
                IF n.kind = "Begin" /\ n.token.kind = "String"
                THEN init_parts' = init_parts \ {n.token.string}
                ELSE init_parts' = init_parts]_vars
    /\ [][init_parts' \subseteq init_parts]_vars

\* init_done is true while an expected token is still running
C16_Witness ==
    /\ rdy.init
    /\ \E s \in init_progress_parts : String(s) \in running

\* C17: for the notifications the task accepts, a token is in the running set
\* from its Begin to its next End, which removes it; the set never holds a
\* token twice, and a Report never changes the set.
C17_RunningFromBeginToEnd ==
    [][\A n \in Notifications :
        (Receive(n) /\ progress_task' = None) =>
            CASE n.kind = "Begin" -> n.token \notin running
                                     /\ running' = running \cup {n.token}
              [] n.kind = "End" -> n.token \in running
                                   /\ running' = running \ {n.token}
              [] OTHER -> running' = running]_vars

\* a token has begun, ended and begun again, beside another running token
C17_Witness ==
    /\ progress = Some([kind |-> "End", token |-> Number(1), title |-> "Indexing",
                        percentage |-> 50])
    /\ progress_task = None
    /\ Number(1) \notin running
    /\ Number(1) \in begun
    /\ running /= {}

\* C18: a Begin for a token in the running set, or an End for a token not in
\* it, ends the task with the error "Progress double start" or "Progress end
\* without start"; for that notification no event is published and the
\* readiness state and both sets stay as they are, and no further
\* notification is processed.
C18_ProtocolViolationIsFatal ==
    /\ [][\A n \in Notifications :
            (Receive(n) /\ (\/ n.kind = "Begin" /\ n.token \in running
                            \/ n.kind = "End" /\ n.token \notin running)) =>
                /\ progress_task' =
                    Some([ok |-> FALSE,
                          err |-> (IF n.kind = "Begin" THEN "Progress double start: "
                                   ELSE "Progress end without start: ")
                                  \o DebugToken(n.token)])
                /\ UNCHANGED <<evt, evt_unseen, rdy, running, init_parts>>]_vars
    /\ [][IsSome(progress_task) =>
            UNCHANGED <<progress, progress_task, evt, rdy, running, init_parts>>]_vars

\* the task has ended on a second Begin of a running token
C18_Witness ==
    /\ IsSome(progress_task)
    /\ Unwrap(progress_task) =
            [ok |-> FALSE, err |-> "Progress double start: Number(1)"]
    /\ Unwrap(progress).kind = "Begin"
    /\ Number(1) \in running

C20_RequestsOnlyWhileReady ==
    [][Len(lsp_sent') > Len(lsp_sent) => ready(rdy)]_vars

(***************************************************************************)
(* SpecTokens: decode a drawn file and raw stream, then query the Document *)
(***************************************************************************)
\* file contents: no line; two equal lines of two equal characters; one line
\* ending in a two-byte character, with a trailing newline
Files ==
    { <<>>,
      <<"a", "a", "\n", "a", "a">>,
      <<"a", "E", "\n">> }

\* u32 values a raw token's deltas and length are drawn from
DeltaValues == {0, 1, U32Max}
LengthValues == {1, 2, U32Max}

\* lsp_types::SemanticToken; token_type 0 is in the legend, Len(token_types) is not
RawTokens ==
    [delta_line : DeltaValues, delta_start : DeltaValues, length : LengthValues,
     token_type : 0..Len(token_types), token_modifiers_bitset : {0}]

\* arguments of Document::query
LookupNames == { <<"a">>, <<"a", "a">>, <<"E">> }
LookupPositions == {None} \cup {Some(n) : n \in 1..3}

InitTokens ==
    /\ file_content \in Files
    /\ tokens \in SeqsUpTo(RawTokens, MaxTokens)
    /\ overflow_checks \in BOOLEAN
    /\ decoded = None
    /\ lookup = None
    /\ found = None
    /\ SearchIdle
    /\ ToolsIdle
    /\ GuardIdle
    /\ TasksIdle
    /\ MainIdle
    /\ IoIdle
    /\ FwdIdle
    /\ StartIdle
    /\ PureIdle
    /\ WrIdle

\* self.token_legend.decode(&file_content, semantic_tokens.data)
Decode ==
    /\ decoded = None
    /\ decoded' = Some(decode(file_content, tokens, overflow_checks))
    /\ UNCHANGED <<file_content, tokens, overflow_checks, sysVars, guardVars, lookup, found, searchVars, toolVars>>

\* doc.query(&name, line, character) on a decoded Document
Query ==
    /\ IsSome(decoded)
    /\ Unwrap(decoded).kind = "Ok"
    /\ found = None
    /\ \E name \in LookupNames, line \in LookupPositions, character \in LookupPositions :
        /\ lookup' = Some([name |-> name, line |-> line, character |-> character])
        /\ found' = Some(DocumentQuery(Unwrap(decoded).tokens, name, line, character))
    /\ UNCHANGED <<file_content, tokens, overflow_checks, sysVars, guardVars, decoded, searchVars, toolVars>>

NextTokens == Decode \/ Query

SpecTokens == InitTokens /\ [][NextTokens]_vars

\* the distance key written out: 0 for a position that was not given
Distance(given, at) == IF IsSome(given) THEN AbsDiff(Unwrap(given), at) ELSE 0

\* token t is at least as close to (line, character) as token u, lines first
Closer(t, u, line, character) ==
    \/ Distance(line, t.line) < Distance(line, u.line)
    \/ /\ Distance(line, t.line) = Distance(line, u.line)
       /\ Distance(character, t.character) <= Distance(character, u.character)

\* the references query must return: the tokens with the text name that no
\* token with that text is strictly closer than
Closest(doc_tokens, name, line, character) ==
    { i \in 1..Len(doc_tokens) :
        /\ doc_tokens[i].data = name
        /\ \A j \in 1..Len(doc_tokens) :
            doc_tokens[j].data = name =>
                Closer(doc_tokens[i], doc_tokens[j], line, character) }

\* C8: Document.query returns every token whose text equals name and whose
\* distance key (lines first, then characters) is minimal among the tokens with
\* that text, all ties included, in document order; with neither position
\* given it returns every token with that text; it is empty only if no token
\* has that text.
C8_QueryReturnsAllClosest ==
    IsSome(found) =>
        LET doc_tokens == Unwrap(decoded).tokens
            q == Unwrap(lookup)
            refs == Unwrap(found)
            named == {i \in 1..Len(doc_tokens) : doc_tokens[i].data = q.name}
        IN  /\ \A k \in 1..(Len(refs) - 1) : refs[k] < refs[k + 1]
            /\ {refs[k] : k \in 1..Len(refs)}
                    = Closest(doc_tokens, q.name, q.line, q.character)
            /\ (q.line = None /\ q.character = None)
                    => {refs[k] : k \in 1..Len(refs)} = named
            /\ refs = <<>> <=> named = {}

\* a line is given, two tokens with the text at different characters tie at
\* the minimal line distance, and both are returned
C8_Witness ==
    /\ IsSome(found)
    /\ Len(Unwrap(found)) = 2
    /\ Unwrap(lookup).line /= None
    /\ Unwrap(lookup).character = None
    /\ Unwrap(decoded).tokens[1].character /= Unwrap(decoded).tokens[2].character

\* the delta stream that the decoded tokens spell: delta_line the difference of
\* lines, delta_start the 0-based character on a new line and the difference
\* of characters otherwise, length the bytes of the text
Reencode(doc_tokens, i) ==
    LET prev_line == IF i = 1 THEN 1 ELSE doc_tokens[i - 1].line
        prev_character == IF i = 1 THEN 1 ELSE doc_tokens[i - 1].character
        t == doc_tokens[i]
    IN  [delta_line |-> t.line - prev_line,
         delta_start |-> IF t.line /= prev_line THEN t.character - 1
                         ELSE t.character - prev_character,
         length |-> ByteLen(t.data)]

\* positions do not go back: (line, character) of t is at most that of u
PositionLeq(t, u) ==
    \/ t.line < u.line
    \/ t.line = u.line /\ t.character <= u.character

\* C9: for any file and any delta stream that decode accepts, the decoded
\* tokens are non-decreasing in (line, character), there is one decoded token
\* per raw token in stream order, and re-encoding them as deltas reproduces
\* the stream.
C9_DecodeRoundTrip ==
    (IsSome(decoded) /\ Unwrap(decoded).kind = "Ok") =>
        LET doc_tokens == Unwrap(decoded).tokens
        IN  /\ Len(doc_tokens) = Len(tokens)
            /\ \A i \in 1..(Len(doc_tokens) - 1) :
                    PositionLeq(doc_tokens[i], doc_tokens[i + 1])
            /\ \A i \in 1..Len(doc_tokens) :
                LET d == Reencode(doc_tokens, i)
                IN  /\ d.delta_line = tokens[i].delta_line
                    /\ d.delta_start = tokens[i].delta_start
                    /\ d.length = tokens[i].length

\* the cursor the stream describes, without the u32 width: <<line, start>>
\* after the first i raw tokens
RECURSIVE Cursor(_, _)
Cursor(raw, i) ==
    IF i = 0 THEN <<0, 0>>
    ELSE LET c == Cursor(raw, i - 1)
         IN  << c[1] + raw[i].delta_line,
                IF raw[i].delta_line > 0 THEN raw[i].delta_start
                ELSE c[2] + raw[i].delta_start >>

\* raw token i has a type outside the legend, a line outside the file, or a
\* byte range [start, start + length) that is not inside its line
Rejectable(content, raw, i) ==
    LET c == Cursor(raw, i)
    IN  \/ raw[i].token_type >= Len(token_types)
        \/ c[1] >= Len(Lines(content))
        \/ c[2] + raw[i].length > ByteLen(Lines(content)[c[1] + 1])

\* C10: decode returns an error and no Document if some raw token has a type
\* index outside the legend, an accumulated line outside the file or a byte
\* range outside its line; otherwise every token of a Document it returns
\* has line >= 1, character >= 1 and as text exactly that byte range of
\* that line.
C10_DecodeRejectsOrLocates ==
    IsSome(decoded) =>
        LET d == Unwrap(decoded)
        IN  IF \E i \in 1..Len(tokens) : Rejectable(file_content, tokens, i)
            THEN d.kind = "Err" /\ d.tokens = <<>>
            ELSE /\ d.kind /= "Panic"
                 /\ d.kind = "Ok" =>
                     /\ Len(d.tokens) = Len(tokens)
                     /\ \A i \in 1..Len(d.tokens) :
                         LET c == Cursor(tokens, i)
                         IN  /\ d.tokens[i].line >= 1
                             /\ d.tokens[i].character >= 1
                             /\ StrGet(Lines(file_content)[c[1] + 1], c[2],
                                       c[2] + tokens[i].length) = Some(d.tokens[i].data)

\* q occurs in c as an in-order, possibly gapped subsequence: a strictly
\* increasing choice of positions of c that spells q
IsSubsequence(q, c) ==
    \E f \in [1..Len(q) -> 1..Len(c)] :
        /\ \A i, j \in 1..Len(q) : i < j => f[i] < f[j]
        /\ \A i \in 1..Len(q) : c[f[i]] = q[i]

\* C5: Fuzzy.check(q, c) is true exactly when the characters of q occur in c
\* in order as a possibly gapped subsequence, each query character on its own
\* candidate character, compared case-sensitively; the empty query matches
\* every candidate.
C5_FuzzyIffSubsequence ==
    chkResult /= None =>
        /\ Unwrap(chkResult)["Fuzzy"] <=> IsSubsequence(chkQuery, chkCandidate)
        /\ chkQuery = <<>> => Unwrap(chkResult)["Fuzzy"]

\* a repeated query character met by two distinct candidate characters with a
\* gap between them, and accepted
C5_Witness ==
    /\ chkResult /= None
    /\ chkQuery = <<"a", "a">>
    /\ chkCandidate = <<"a", "b", "a">>
    /\ Unwrap(chkResult)["Fuzzy"]

\* C6: Exact.check(q, c) implies Fuzzy.check(q, c), and Exact.check(q, c)
\* holds exactly when c equals q.
C6_ExactImpliesFuzzy ==
    chkResult /= None =>
        /\ Unwrap(chkResult)["Exact"] => Unwrap(chkResult)["Fuzzy"]
        /\ Unwrap(chkResult)["Exact"] <=> (chkCandidate = chkQuery)

\* an exact match of a string with a repeated character
C6_Witness ==
    /\ chkResult /= None
    /\ chkQuery = <<"a", "a", "b">>
    /\ Unwrap(chkResult)["Exact"]
    /\ Unwrap(chkResult)["Fuzzy"]

(***************************************************************************)
(* SpecTasks: a TaskManager, its tasks, one run() and one shutdown()       *)
(***************************************************************************)
\* the names the tasks are spawned under: the one of the unit tests and the
\* files of the interception writers
TaskNames == <<"test", "lsp.stdin.txt", "lsp.stdout.txt", "mcp.stdin.txt">>

\* the ways a task's future ends
TaskOutcomes ==
    { Returned, Failed(<<"write data", "broken pipe">>), Panicked("String", "foo hello"),
      Panicked("&str", "foo"), Panicked("i32", "") }

\* TaskManager::new and a spawn for each task
InitTasks ==
    /\ \E n \in 0..MaxTasks : spawned = { TaskNames[i] : i \in 1..n }
    /\ finished = <<>>
    /\ joined = <<>>
    /\ cancel = FALSE
    /\ tm_pc = "idle"
    /\ run_error = None
    /\ shutdown_res = Ok
    /\ ended = <<>>
    /\ overflow_checks = FALSE
    /\ SearchIdle
    /\ TokensIdle
    /\ ToolsIdle
    /\ GuardIdle
    /\ MainIdle
    /\ IoIdle
    /\ FwdIdle
    /\ StartIdle
    /\ PureIdle
    /\ WrIdle

\* the future of task name ends with outcome: the task that spawn_inner built
\* completes with its result and can be joined
TaskEnds(name, outcome) ==
    /\ name \in spawned
    /\ spawned' = spawned \ {name}
    /\ finished' = Append(finished, TaskResult(name, outcome))
    /\ ended' = Append(ended, [name |-> name, outcome |-> outcome])
    /\ UNCHANGED <<joined, cancel, tm_pc, run_error, shutdown_res>>

\* some task ends in some way
TaskFinishes ==
    /\ \E name \in spawned, outcome \in TaskOutcomes : TaskEnds(name, outcome)
    /\ UNCHANGED <<searchVars, tokenVars, overflow_checks, toolVars, guardVars,
                   mainVars, ioVars, extVars>>

\* run() is called
CallRun ==
    /\ tm_pc = "idle"
    /\ tm_pc' = "run"
    /\ UNCHANGED <<spawned, finished, joined, cancel, run_error, shutdown_res, ended,
                   searchVars, tokenVars, overflow_checks, toolVars, guardVars,
                   mainVars, ioVars, extVars>>

\* join_next yields the task that completed first and run() returns
RunJoins ==
    /\ tm_pc = "run"
    /\ finished /= <<>>
    /\ joined' = Append(joined, Head(finished))
    /\ finished' = Tail(finished)
    /\ run_error' = Some(RunError(Head(finished)))
    /\ tm_pc' = "run_returned"
    /\ UNCHANGED <<spawned, cancel, shutdown_res, ended>>

RunReturns ==
    /\ RunJoins
    /\ UNCHANGED <<searchVars, tokenVars, overflow_checks, toolVars, guardVars,
                   mainVars, ioVars, extVars>>

\* shutdown() is called, at once, after run() has returned or after the
\* future of run() was dropped: it cancels the token
ShutdownStarts ==
    /\ tm_pc \in {"idle", "run", "run_returned"}
    /\ cancel' = TRUE
    /\ shutdown_res' = Ok
    /\ tm_pc' = "shutdown"
    /\ UNCHANGED <<spawned, finished, joined, run_error, ended>>

CallShutdown ==
    /\ ShutdownStarts
    /\ UNCHANGED <<searchVars, tokenVars, overflow_checks, toolVars, guardVars,
                   mainVars, ioVars, extVars>>

\* one turn of the loop of shutdown(): join_next yields a task
ShutdownJoins ==
    /\ tm_pc = "shutdown"
    /\ finished /= <<>>
    /\ joined' = Append(joined, Head(finished))
    /\ finished' = Tail(finished)
    /\ shutdown_res' = And(shutdown_res, ShutdownTaskResult(Head(finished)))
    /\ UNCHANGED <<spawned, cancel, tm_pc, run_error, ended,
                   searchVars, tokenVars, overflow_checks, toolVars, guardVars,
                   mainVars, ioVars, extVars>>

\* join_next yields None, the set is empty: shutdown() returns res
ShutdownEnds ==
    /\ tm_pc = "shutdown"
    /\ finished = <<>>
    /\ spawned = {}
    /\ tm_pc' = "shutdown_returned"
    /\ UNCHANGED <<spawned, finished, joined, cancel, run_error, shutdown_res, ended>>

ShutdownReturns ==
    /\ ShutdownEnds
    /\ UNCHANGED <<searchVars, tokenVars, overflow_checks, toolVars, guardVars,
                   mainVars, ioVars, extVars>>

NextTasks ==
    \/ TaskFinishes
    \/ CallRun
    \/ RunReturns
    \/ CallShutdown
    \/ ShutdownJoins
    \/ ShutdownReturns

SpecTasks == InitTasks /\ [][NextTasks]_vars

\* the text a task that did not return normally is reported with
FailureText(e) ==
    "task " \o e.name \o ": " \o
        (IF e.outcome.kind = "Err" THEN Alternate(e.outcome.err)
         ELSE "panic: " \o (IF e.outcome.payload.type \in {"String", "&str"}
                            THEN e.outcome.payload.text ELSE "<unknown>"))

\* the tasks that run() has joined: the first to end if run() has returned
JoinedByRun == IF IsSome(run_error) THEN 1 ELSE 0

\* C21: run() returns with the first task that finished and always returns
\* an error: "task '<name>' returned early" if the task returned normally,
\* the task's error under the context "task <name>" if it returned an error,
\* "task <name>: panic: <msg>" if it panicked; it returns as soon as a task
\* has finished and leaves the other tasks running.
C21_RunReturnsFirstFailure ==
    /\ [](tm_pc = "run_returned" =>
            /\ IsSome(run_error)
            /\ Len(joined) = 1
            /\ joined[1].name = ended[1].name
            /\ Alternate(Unwrap(run_error)) =
                    IF ended[1].outcome.kind = "Ok"
                    THEN "task '" \o ended[1].name \o "' returned early"
                    ELSE FailureText(ended[1]))
    /\ []((tm_pc = "run" /\ ended /= <<>>) => ENABLED RunReturns)
    /\ [][RunReturns => UNCHANGED <<spawned, cancel>>]_vars

\* run() has returned for a task that returned normally, another task runs
C21_Witness ==
    /\ tm_pc = "run_returned"
    /\ ended[1].outcome.kind = "Ok"
    /\ run_error = Some(<<"task 'test' returned early">>)
    /\ spawned /= {}
    /\ ~cancel

\* the first task, among those shutdown() joined, that did not return normally
FirstFailure(from) ==
    LET failing == { i \in from..Len(ended) : ended[i].outcome.kind /= "Ok" }
    IN  IF failing = {} THEN 0 ELSE CHOOSE i \in failing : \A j \in failing : i <= j

\* C22: a panic with a String or &'static str payload is reported by run()
\* and by shutdown() as "task <name>: panic: <msg>" with the payload's text,
\* a panic with a payload of another type as "task <name>: panic: <unknown>".
C22_PanicPayloadReported ==
    /\ (tm_pc = "run_returned" /\ ended[1].outcome.kind = "Panic") =>
            Alternate(Unwrap(run_error)) =
                "task " \o ended[1].name \o ": panic: " \o
                    (IF ended[1].outcome.payload.type \in {"String", "&str"}
                     THEN ended[1].outcome.payload.text ELSE "<unknown>")
    /\ tm_pc = "shutdown_returned" =>
            LET i == FirstFailure(JoinedByRun + 1)
            IN  (i > 0 /\ ended[i].outcome.kind = "Panic") =>
                    Alternate(shutdown_res.err) =
                        "task " \o ended[i].name \o ": panic: " \o
                            (IF ended[i].outcome.payload.type \in {"String", "&str"}
                             THEN ended[i].outcome.payload.text ELSE "<unknown>")

\* shutdown() has reported the panic of a task whose payload is a &'static str
C22_Witness ==
    /\ tm_pc = "shutdown_returned"
    /\ run_error = None
    /\ \E i \in 1..Len(ended) : ended[i].outcome = Panicked("&str", "foo")
    /\ Alternate(shutdown_res.err) = "task test: panic: foo"

\* C23: shutdown() cancels the token first, then waits for every remaining
\* task before it returns, also after one of them has reported an error; it
\* returns the error of the first task that finished with an error or a
\* panic, and success if every remaining task returned normally.
C23_ShutdownDrainsAll ==
    /\ tm_pc \in {"shutdown", "shutdown_returned"} => cancel
    /\ tm_pc = "shutdown_returned" =>
            /\ spawned = {}
            /\ finished = <<>>
            /\ Len(joined) = Len(ended)
            /\ LET i == FirstFailure(JoinedByRun + 1)
               IN  IF i = 0 THEN shutdown_res.ok
                   ELSE /\ ~shutdown_res.ok
                        /\ Alternate(shutdown_res.err) = FailureText(ended[i])

\* shutdown() has returned success for a task that returned normally, after
\* run() had returned
C23_Witness ==
    /\ tm_pc = "shutdown_returned"
    /\ IsSome(run_error)
    /\ Len(ended) = 2
    /\ ended[2].outcome.kind = "Ok"
    /\ shutdown_res.ok

(***************************************************************************)
(* SpecMain: main_async from its select on, with main_inner, the progress  *)
(* task and an interception writer under the TaskManager                   *)
(***************************************************************************)
\* the name of the progress task; the call of spawn that names it is not in
\* the sources at hand
ProgressTask == "progress"

\* the writer task of the fork on the server's stdin
WriterTask == "lsp.stdin.txt"

\* the notifications of this specification: one numeric token
MainNotifications ==
    [kind : {"Begin", "Report", "End"}, token : {Number(1)}, title : {"Indexing"},
     percentage : {50}]

\* the answers a server gives to initialize
InitializeResponses ==
    { InitializeFailed(ErrorMsg("connection closed")) } \cup
    { InitializeResult(ServerCapabilities(encoding, provider)) :
        encoding \in {None, Some(UTF8), Some("utf-16")},
        provider \in
            {None, Some(SemanticTokensRegistrationOptions)} \cup
            { Some(SemanticTokensOptions(full)) :
                full \in {None, Some(FullBool(TRUE)), Some(FullDelta(None)),
                          Some(FullDelta(Some(TRUE))), Some(FullDelta(Some(FALSE)))} } }

\* the result of a request, a notification or a system call: it succeeds or
\* fails with an error
IoResults(what) == {Ok, Err(ErrorMsg(what))}

\* what the model leaves alone in this specification
mainFrame == <<searchVars, tokenVars, overflow_checks, toolVars, ioVars, extVars>>

\* main_async has spawned the server and the tasks and enters its select:
\* main_inner starts and run() waits for the first task
InitMain ==
    /\ main_pc = "select"
    /\ inner_pc = "init_lsp"
    /\ inner_res = Ok
    /\ service = "none"
    /\ fuse = FALSE
    /\ sigterm = FALSE
    /\ main_res = Ok
    /\ outcomes = <<>>
    /\ trace = <<>>
    /\ exit_code = None
    /\ init_resp = None
    /\ \E intercept_io \in BOOLEAN :
            spawned = {ProgressTask} \cup (IF intercept_io THEN {WriterTask} ELSE {})
    /\ finished = <<>>
    /\ joined = <<>>
    /\ cancel = FALSE
    /\ tm_pc = "run"
    /\ run_error = None
    /\ shutdown_res = Ok
    /\ ended = <<>>
    /\ init_parts = init_progress_parts
    /\ running = {}
    /\ rdy = InitialReady
    /\ evt = ""
    /\ evt_unseen = FALSE
    /\ progress = None
    /\ progress_task = None
    /\ lease = None
    /\ begun = {}
    /\ overflow_checks = FALSE
    /\ SearchIdle
    /\ TokensIdle
    /\ ToolsIdle
    /\ IoIdle
    /\ FwdIdle
    /\ StartIdle
    /\ PureIdle
    /\ WrIdle

\* the progress task takes a notification
MainReceiveProgress == \E n \in MainNotifications : Receive(n)

\* a future that always returns normally
ProgressOutcomeReturned(task_result) == Returned
\* what the future of the progress task returned: Ok(()) or the error
ProgressOutcome(task_result) ==
    IF task_result.ok THEN Returned ELSE Failed(ErrorMsg(task_result.err))

\* the future of the progress task has returned: its task completes
ProgressTaskEnds ==
    /\ IsSome(progress_task)
    /\ TaskEnds(ProgressTask, ProgressOutcome(Unwrap(progress_task)))
    /\ UNCHANGED <<mainVars, guardVars, mainFrame>>

\* the writer task ends: its loop has ended and the file is flushed and shut
\* down, or a write to the file has failed
WriterTaskEnds ==
    /\ \E outcome \in {Returned, Failed(<<"write data", "broken pipe">>)} :
            TaskEnds(WriterTask, outcome)
    /\ UNCHANGED <<mainVars, guardVars, mainFrame>>

\* main_inner calls init_lsp
InitLsp ==
    /\ main_pc = "select"
    /\ inner_pc = "init_lsp"
    /\ \E response \in InitializeResponses, initialized \in IoResults("broken pipe") :
        LET r == init_lsp(response, initialized)
        IN  /\ init_resp' = Some(response)
            /\ trace' = trace \o r.sent
            /\ IF r.res.ok
               THEN inner_pc' = "serve" /\ UNCHANGED inner_res
               ELSE /\ inner_pc' = "returned"
                    /\ inner_res' = ResultContext(r.res, "init lsp")
    /\ UNCHANGED <<main_pc, service, fuse, sigterm, main_res, outcomes, exit_code,
                   taskVars, guardVars, mainFrame>>

\* main_inner starts the MCP service and creates the signal stream
StartService ==
    /\ main_pc = "select"
    /\ inner_pc = "serve"
    /\ \E started \in IoResults("connection closed"), stream \in IoResults("signal") :
        IF ~started.ok
        THEN /\ inner_pc' = "returned"
             /\ inner_res' = ResultContext(started, "set up code explorer service")
             /\ UNCHANGED <<service, trace>>
        ELSE /\ trace' = Append(trace, "serve")
             /\ IF stream.ok
                THEN /\ inner_pc' = "select"
                     /\ service' = "running"
                     /\ UNCHANGED inner_res
                ELSE /\ inner_pc' = "returned"
                     /\ inner_res' = ResultContext(stream, "create signal handler")
                     /\ service' = "dropped"
    /\ UNCHANGED <<main_pc, fuse, sigterm, main_res, outcomes, exit_code, init_resp,
                   taskVars, guardVars, mainFrame>>

\* the MCP service ends: on its own when its transport closes, after its
\* token was cancelled, or with a JoinError
ServiceQuits ==
    /\ service \in {"running", "cancelled"}
    /\ \E quit \in {"quit_ok", "quit_err"} : service' = quit
    /\ UNCHANGED <<main_pc, inner_pc, inner_res, fuse, sigterm, main_res, outcomes,
                   trace, exit_code, init_resp, taskVars, guardVars, mainFrame>>

\* SIGTERM arrives while main_inner waits on the signal stream
Sigterm ==
    /\ main_pc = "select"
    /\ inner_pc = "select"
    /\ ~sigterm
    /\ sigterm' = TRUE
    /\ UNCHANGED <<main_pc, inner_pc, inner_res, service, fuse, main_res, outcomes,
                   trace, exit_code, init_resp, taskVars, guardVars, mainFrame>>

\* the select of main_inner takes signal.recv(): ct.cancel(), then on to the
\* await of the service
InnerSelectSignal ==
    /\ main_pc = "select"
    /\ inner_pc = "select"
    /\ sigterm
    /\ sigterm' = FALSE
    /\ service' = IF service = "running" THEN "cancelled" ELSE service
    /\ inner_pc' = "await_service"
    /\ UNCHANGED <<main_pc, inner_res, fuse, main_res, outcomes, trace, exit_code,
                   init_resp, taskVars, guardVars, mainFrame>>

\* the select of main_inner takes the service future, which has completed:
\* an error returns, a success goes on to the await of the service
InnerSelectService ==
    /\ main_pc = "select"
    /\ inner_pc = "select"
    /\ LET polled == FusePoll(fuse, service)
       IN  /\ polled /= "Pending"
           /\ fuse' = TRUE
           /\ IF polled = "Err"
              THEN /\ inner_pc' = "returned"
                   /\ inner_res' = Err(<<"wait for service", "join error">>)
              ELSE /\ inner_pc' = "await_service"
                   /\ UNCHANGED inner_res
    /\ UNCHANGED <<main_pc, service, sigterm, main_res, outcomes, trace, exit_code,
                   init_resp, taskVars, guardVars, mainFrame>>

\* service_fut.await after the select: main_inner returns once the fused
\* future yields the result of the service
AwaitService ==
    /\ main_pc = "select"
    /\ inner_pc = "await_service"
    /\ LET polled == FusePoll(fuse, service)
       IN  /\ polled /= "Pending"
           /\ fuse' = TRUE
           /\ inner_pc' = "returned"
           /\ inner_res' = IF polled = "Err"
                           THEN Err(<<"wait for service", "join error">>)
                           ELSE Ok
    /\ UNCHANGED <<main_pc, service, sigterm, main_res, outcomes, trace, exit_code,
                   init_resp, taskVars, guardVars, mainFrame>>

\* the select of main_async takes main_inner, which has returned; the future
\* of run() is dropped
SelectMain ==
    /\ main_pc = "select"
    /\ inner_pc = "returned"
    /\ main_res' = ResultContext(inner_res, "main")
    /\ outcomes' = <<main_res'>>
    /\ main_pc' = "dismantle"
    /\ tm_pc' = "idle"
    /\ inner_pc' = "dropped"
    /\ service' = IF service = "none" THEN service ELSE "dropped"
    /\ UNCHANGED <<inner_res, fuse, sigterm, trace, exit_code, init_resp,
                   spawned, finished, joined, cancel, run_error, shutdown_res, ended,
                   guardVars, mainFrame>>

\* the select of main_async takes tasks.run(), which has joined a task; the
\* future of main_inner is dropped and the service with it
SelectTasks ==
    /\ main_pc = "select"
    /\ RunJoins
    /\ main_res' = ResultContext(Err(Unwrap(run_error')), "tasks")
    /\ outcomes' = <<main_res'>>
    /\ main_pc' = "dismantle"
    /\ inner_pc' = "dropped"
    /\ service' = IF service = "none" THEN service ELSE "dropped"
    /\ UNCHANGED <<inner_res, fuse, sigterm, trace, exit_code, init_resp,
                   guardVars, mainFrame>>

\* "dismantle LSP": the shutdown request and, if it succeeded, the exit
\* notification
Dismantle ==
    /\ main_pc = "dismantle"
    /\ \E shutdown \in IoResults("shutdown failed"), exit \in IoResults("broken pipe") :
        LET step == IF ~shutdown.ok
                    THEN ResultContext(shutdown, "shutdown language server")
                    ELSE ResultContext(exit, "exit language server")
        IN  /\ trace' = trace \o <<"shutdown">> \o (IF shutdown.ok THEN <<"exit">> ELSE <<>>)
            /\ main_res' = And(main_res, step)
            /\ outcomes' = Append(outcomes, step)
    /\ main_pc' = "child_wait"
    /\ UNCHANGED <<inner_pc, inner_res, service, fuse, sigterm, exit_code, init_resp,
                   taskVars, guardVars, mainFrame>>

\* child.wait() and the check of the exit status, then the call of
\* tasks.shutdown(), which cancels the token
ChildWait ==
    /\ main_pc = "child_wait"
    /\ \E status \in {"error", "success", "failure"} :
        LET step == CASE status = "error" ->
                            Err(<<"terminate language server", "wait failed">>)
                      [] status = "failure" ->
                            Err(ErrorMsg("LSP exit was not clean: exit status: 1"))
                      [] OTHER -> Ok
        IN  /\ trace' = trace \o <<"wait:" \o status, "tasks.shutdown">>
            /\ main_res' = And(main_res, step)
            /\ outcomes' = Append(outcomes, step)
    /\ main_pc' = "tasks_shutdown"
    /\ ShutdownStarts
    /\ UNCHANGED <<inner_pc, inner_res, service, fuse, sigterm, exit_code, init_resp,
                   guardVars, mainFrame>>

\* tasks.shutdown() returns: main_async returns res and main exits with the
\* code of its report
MainReturns ==
    /\ main_pc = "tasks_shutdown"
    /\ ShutdownEnds
    /\ LET step == ResultContext(shutdown_res, "task shutdown")
       IN  /\ main_res' = And(main_res, step)
           /\ outcomes' = Append(outcomes, step)
    /\ exit_code' = Some(Report(main_res'))
    /\ main_pc' = "done"
    /\ UNCHANGED <<inner_pc, inner_res, service, fuse, sigterm, trace, init_resp,
                   guardVars, mainFrame>>

NextMain ==
    \/ MainReceiveProgress
    \/ SubscriptionEnds
    \/ ReceiveError
    \/ ProgressTaskEnds
    \/ WriterTaskEnds
    \/ InitLsp
    \/ StartService
    \/ ServiceQuits
    \/ Sigterm
    \/ InnerSelectSignal
    \/ InnerSelectService
    \/ AwaitService
    \/ SelectMain
    \/ SelectTasks
    \/ Dismantle
    \/ ChildWait
    \/ ShutdownJoins
    \/ MainReturns

SpecMain == InitMain /\ [][NextMain]_vars

\* the first position of what in the trace, 0 if it is not there
Position(what) ==
    LET at == { i \in 1..Len(trace) : trace[i] \in what }
    IN  IF at = {} THEN 0 ELSE CHOOSE i \in at : \A j \in at : i <= j

\* the calls of the shutdown sequence
ShutdownRequest == {"shutdown"}
ExitNotification == {"exit"}
ChildAwaited == {"wait:success", "wait:failure", "wait:error"}
ChildExited == {"wait:success", "wait:failure"}
SupervisorShutdown == {"tasks.shutdown"}

\* C24: after the select has returned the orchestrator makes the shutdown
\* request, sends the exit notification, waits for the child and shuts the
\* supervisor down, in this order: exit is sent only after the shutdown
\* request, the child is awaited only after exit was sent, and the supervisor
\* is shut down only after the child has exited.
C24_ShutdownSequenceInOrder ==
    /\ main_pc = "select" =>
            Position(ShutdownRequest \cup ExitNotification \cup ChildAwaited
                     \cup SupervisorShutdown) = 0
    /\ Position(ExitNotification) > 0 =>
            /\ Position(ShutdownRequest) > 0
            /\ Position(ShutdownRequest) < Position(ExitNotification)
    /\ Position(ChildAwaited) > 0 =>
            /\ Position(ExitNotification) > 0
            /\ Position(ExitNotification) < Position(ChildAwaited)
    /\ Position(SupervisorShutdown) > 0 =>
            /\ Position(ChildExited) > 0
            /\ Position(ChildExited) < Position(SupervisorShutdown)
    /\ main_pc = "done" =>
            /\ Position(ShutdownRequest) > 0
            /\ Position(ExitNotification) > 0
            /\ Position(ChildAwaited) > 0
            /\ Position(SupervisorShutdown) > 0

\* the first of the steps that failed, 0 if none did
FirstFailedStep ==
    LET failing == { i \in 1..Len(outcomes) : ~outcomes[i].ok }
    IN  IF failing = {} THEN 0 ELSE CHOOSE i \in failing : \A j \in failing : i <= j

\* C25: the exit code is non-zero exactly if the select's outcome, the LSP
\* shutdown/exit step, the wait for the child with its exit status, or the
\* supervisor's shutdown failed; every later step is attempted after an
\* earlier failure, and the error reported is the earliest failure.
C25_ExitCodeAggregatesSteps ==
    /\ IsSome(exit_code) =>
            /\ main_pc = "done"
            /\ Len(outcomes) = 4
            /\ Position(ShutdownRequest) > 0
            /\ Position(ChildAwaited) > Position(ShutdownRequest)
            /\ Position(SupervisorShutdown) > Position(ChildAwaited)
            /\ exit_code = Some(IF FirstFailedStep = 0 THEN 0 ELSE 1)
            /\ main_res = IF FirstFailedStep = 0 THEN [ok |-> TRUE, err |-> <<>>]
                          ELSE outcomes[FirstFailedStep]
    /\ main_pc = "done" => IsSome(exit_code)

\* the select's outcome and the child's exit status have failed, the steps
\* between and after them were made, and the first error is reported
C25_Witness ==
    /\ exit_code = Some(1)
    /\ ~outcomes[1].ok
    /\ outcomes[2].ok
    /\ ~outcomes[3].ok
    /\ outcomes[4].ok
    /\ main_res = outcomes[1]
    /\ main_res.err[1] = "main"

\* the capabilities init_lsp accepts: UTF-8 positions and semantic tokens
\* options with full: { delta: true }
AcceptedCapabilities(response) ==
    /\ response.ok
    /\ response.capabilities.position_encoding = {"utf-8"}
    /\ response.capabilities.semantic_tokens_provider =
            { [variant |-> "SemanticTokensOptions",
               full |-> { [variant |-> "Delta", bool |-> FALSE, delta |-> {TRUE}] }] }

\* the number of times what is in the trace
Count(what) == Cardinality({ i \in 1..Len(trace) : trace[i] = what })

\* C27: if the initialize response has no position encoding or one other than
\* UTF-8, no semantic tokens provider, semantic tokens without full delta =
\* true, or registration options, the handshake fails, initialized is not
\* sent and the MCP service is never started; otherwise initialized is sent
\* exactly once, after the initialize response, and the MCP service is
\* started only after it.
C27_InitHandshake ==
    /\ init_resp = None => Count("initialized") = 0 /\ Count("serve") = 0
    /\ IsSome(init_resp) =>
            /\ trace[1] = "initialize"
            /\ IF AcceptedCapabilities(Unwrap(init_resp))
               THEN /\ trace[2] = "initialized"
                    /\ Count("initialized") = 1
                    /\ Count("serve") <= 1
                    /\ Count("serve") = 1 => trace[3] = "serve"
               ELSE /\ Count("initialized") = 0
                    /\ Count("serve") = 0
                    /\ service = "none"
                    /\ ~inner_res.ok
                    /\ inner_res.err[1] = "init lsp"
                    /\ inner_pc \in {"returned", "dropped"}

\* the server offers full: true without delta: the handshake has failed and
\* the orchestrator has exited with a non-zero code
C27_Witness ==
    /\ IsSome(init_resp)
    /\ Unwrap(init_resp).capabilities.position_encoding = Some(UTF8)
    /\ Unwrap(init_resp).capabilities.semantic_tokens_provider =
            Some(SemanticTokensOptions(Some(FullBool(TRUE))))
    /\ trace[1] = "initialize"
    /\ main_res.err =
            <<"main", "init lsp", "language server uses delta mode to transfer semantic tokens">>
    /\ exit_code = Some(1)

\* the service ends after ct.cancel()
ServiceQuitsCancelled == service = "cancelled" /\ ServiceQuits

\* SpecMain under the runtime's scheduling: a task whose future has returned
\* completes, a select whose branch is ready returns, an await whose future
\* is ready returns, and the service ends once its token is cancelled.
\* Nothing is assumed of what the server, the client, the child or the other
\* tasks do.
SpecMainFair ==
    /\ SpecMain
    /\ WF_vars(ProgressTaskEnds)
    /\ WF_vars(InnerSelectSignal)
    /\ WF_vars(InnerSelectService)
    /\ WF_vars(AwaitService)
    /\ WF_vars(ServiceQuitsCancelled)
    /\ WF_vars(SelectMain)
    /\ WF_vars(SelectTasks)

\* C26: each trigger leads to shutdown: whenever the MCP service has completed
\* on its own, a supervised task has finished, or SIGTERM was received, the
\* orchestrator eventually leaves the select and starts the shutdown sequence.
C26_TriggersLeadToShutdown ==
    /\ (main_pc = "select" /\ service \in {"quit_ok", "quit_err"}) ~> main_pc /= "select"
    /\ (main_pc = "select" /\ finished /= <<>>) ~> main_pc /= "select"
    /\ (main_pc = "select" /\ sigterm) ~> main_pc /= "select"

\* the errors the progress task ends with on a Begin of a running token and
\* on an End of a token that does not run
ProtocolViolations ==
    { [ok |-> FALSE, err |-> "Progress double start: Number(1)"],
      [ok |-> FALSE, err |-> "Progress end without start: Number(1)"] }

SpecGuardFair == SpecGuard /\ WF_vars(WaitReturns)

Bytes == {0, 255}

\* the buffers a caller hands to poll_write
WriteBuffers == {<<>>, <<255>>, <<0, 255>>}

\* the bytes the inner stream has for one poll_read
ReadChunks == {<<>>, <<0>>, <<255>>, <<0, 255>>}

\* the answers of the inner stream to a poll
PollResults == {"Pending", "Ok", "Err"}

\* the call made last: its number, the method, the buffer it got, the inner
\* stream's answer
Call(n, op, buf, polled) == [n |-> n, op |-> op, buf |-> buf, polled |-> polled]

\* WriteFork::new and ReadFork::new have spawned their writers; the ReadBuf
\* of the reader is empty
InitIo ==
    /\ io_inner = <<>>
    /\ io_filled = <<>>
    /\ io_tee = [write |-> <<>>, read |-> <<>>]
    /\ io_op = Some(Call(0, "new", <<>>, Poll("Ok", 0)))
    /\ io_rx = {"write", "read"}
    /\ io_ret = None
    /\ overflow_checks = FALSE
    /\ SearchIdle
    /\ TokensIdle
    /\ ToolsIdle
    /\ GuardIdle
    /\ TasksIdle
    /\ MainIdle
    /\ FwdIdle
    /\ StartIdle
    /\ PureIdle
    /\ WrIdle

\* what SpecIo leaves alone
ioFrame ==
    <<searchVars, tokenVars, overflow_checks, toolVars, guardVars, taskVars, mainVars,
     extVars>>

\* a poll_write with buf: the inner stream is pending, fails, or accepts the
\* first written bytes
PollWrite ==
    /\ Unwrap(io_op).n < MaxCalls
    /\ \E buf \in WriteBuffers, answer \in PollResults :
      \E written \in 0..Len(buf) :
        /\ answer /= "Ok" => written = 0
        /\ io_inner' = io_inner \o SubSeq(buf, 1, written)
        /\ io_tee' = [io_tee EXCEPT !.write =
                        poll_write(@, "write" \in io_rx, buf, Poll(answer, written))]
        /\ io_op' = Some(Call(Unwrap(io_op).n + 1, "poll_write", buf, Poll(answer, written)))
        /\ io_ret' = Some(MapOk(Poll(answer, written), SendOk("write" \in io_rx)))
    /\ UNCHANGED <<io_filled, io_rx, ioFrame>>

\* a poll_flush
PollFlush ==
    /\ Unwrap(io_op).n < MaxCalls
    /\ \E answer \in PollResults :
        /\ io_tee' = [io_tee EXCEPT !.write = poll_flush(@, "write" \in io_rx, Poll(answer, 0))]
        /\ io_op' = Some(Call(Unwrap(io_op).n + 1, "poll_flush", <<>>, Poll(answer, 0)))
        /\ io_ret' = Some(MapOk(Poll(answer, 0), SendOk("write" \in io_rx)))
    /\ UNCHANGED <<io_inner, io_filled, io_rx, ioFrame>>

\* a poll_shutdown
PollShutdown ==
    /\ Unwrap(io_op).n < MaxCalls
    /\ \E answer \in PollResults :
        /\ io_tee' = [io_tee EXCEPT !.write =
                        poll_shutdown(@, "write" \in io_rx, Poll(answer, 0))]
        /\ io_op' = Some(Call(Unwrap(io_op).n + 1, "poll_shutdown", <<>>, Poll(answer, 0)))
        /\ io_ret' = Some(MapOk(Poll(answer, 0), SendOk("write" \in io_rx)))
    /\ UNCHANGED <<io_inner, io_filled, io_rx, ioFrame>>

\* a poll_read into the ReadBuf: the inner stream is pending, fails, or fills
\* in some bytes (none at the end of the stream)
PollRead ==
    /\ Unwrap(io_op).n < MaxCalls
    /\ \E answer \in PollResults, read \in ReadChunks :
        LET before == ReadBuf(MaxBuf, io_filled)
            pos_pre == PosPre(before)
            after == ReadBuf(MaxBuf, io_filled \o read)
        IN  /\ Len(read) <= Remaining(before)
            /\ answer /= "Ok" => read = <<>>
            /\ io_filled' = after.filled
            /\ io_tee' = [io_tee EXCEPT !.read =
                            poll_read(@, "read" \in io_rx, pos_pre, after,
                                      Poll(answer, Len(read)))]
            /\ io_op' = Some(Call(Unwrap(io_op).n + 1, "poll_read", io_filled,
                                  Poll(answer, Len(read))))
            /\ io_ret' = Some(MapOk(Poll(answer, Len(read)), SendOk("read" \in io_rx)))
    /\ UNCHANGED <<io_inner, io_rx, ioFrame>>

\* the caller takes the data and hands in a fresh ReadBuf next time
NewReadBuf ==
    /\ io_filled /= <<>>
    /\ io_filled' = <<>>
    /\ UNCHANGED <<io_inner, io_tee, io_op, io_rx, io_ret, ioFrame>>

\* the background writer of a fork ends (after Shutdown, on cancellation or
\* on a failed write to its file) and drops its receiver
WriterStops ==
    /\ \E fork \in io_rx : io_rx' = io_rx \ {fork}
    /\ UNCHANGED <<io_inner, io_filled, io_tee, io_op, io_ret, ioFrame>>

NextIo ==
    \/ PollWrite
    \/ PollFlush
    \/ PollShutdown
    \/ PollRead
    \/ NewReadBuf
    \/ WriterStops

SpecIo == InitIo /\ [][NextIo]_vars

\* the message a call is to send, given what the inner stream answered
ExpectedMessage(call, filled_after) ==
    CASE call.op = "poll_write" ->
            [kind |-> "Data",
             data |-> [i \in 1..call.polled.written |-> call.buf[i]]]
      [] call.op = "poll_read" ->
            [kind |-> "Data",
             data |-> [i \in 1..(Len(filled_after) - Len(call.buf)) |->
                            filled_after[Len(call.buf) + i]]]
      [] call.op = "poll_flush" -> [kind |-> "Flush", data |-> <<>>]
      [] OTHER -> [kind |-> "Shutdown", data |-> <<>>]

\* C28: a fork emits a tee message only when the underlying operation
\* returned success: Data with exactly the bytes the inner stream accepted
\* (the first written bytes of the buffer) or the bytes the read has newly
\* filled, Flush after a successful flush, Shutdown after a successful
\* shutdown; a pending or failed operation emits nothing.
C28_TeeOnlyOnSuccess ==
    [][io_op' /= io_op =>
        LET call == Unwrap(io_op')
            fork == IF call.op = "poll_read" THEN "read" ELSE "write"
            other == IF fork = "read" THEN "write" ELSE "read"
        IN  /\ io_tee'[other] = io_tee[other]
            /\ IF call.polled.result = "Ok" /\ fork \in io_rx
               THEN io_tee'[fork] =
                        Append(io_tee[fork], ExpectedMessage(call, io_filled'))
               ELSE io_tee'[fork] = io_tee[fork]
            /\ call.polled.result /= "Ok" => UNCHANGED <<io_inner, io_filled>>]_vars

\* a read has filled one byte, and the inner writer then took one byte of a
\* buffer of two: each fork has teed its byte
C28_Witness ==
    /\ Unwrap(io_op) = Call(MaxCalls, "poll_write", <<0, 255>>, Poll("Ok", 1))
    /\ io_inner = <<0>>
    /\ io_tee.write = <<Data(<<0>>)>>
    /\ io_filled = <<255>>
    /\ io_tee.read = <<Data(<<255>>)>>

(***************************************************************************)
(* SpecForward: wait_for_client with its progress future                   *)
(***************************************************************************)
\* most events the progress task publishes while one call waits
MaxEvents == 2

\* the expected token that has not begun yet
LastInitPart == "rust-analyzer/flycheck/0"

\* the progress token of the MCP call's meta
McpProgressToken == Number(7)

\* $/progress notifications of the token still expected and of later work
FwdNotifications ==
    [kind : {"Begin", "Report", "End"}, token : {String(LastInitPart), Number(1)},
     title : {"Indexing"}, percentage : {50}]

\* ProgressNotificationParam { progress_token, progress, total: None, message: Some(evt) }
ProgressNotificationParam(token, counter, message) ==
    [progress_token |-> token, progress |-> counter, total |-> None,
     message |-> Some(message)]

\* the progress task has seen Begin and End of all expected tokens but one;
\* no tool call yet
InitForward ==
    /\ init_parts = {LastInitPart}
    /\ running = {}
    /\ rdy = NewReady({LastInitPart}, {})
    /\ evt = format_event(String("rustAnalyzer/cachePriming"), "end", None, None, None)
    /\ evt_unseen = FALSE
    /\ progress = Some([kind |-> "End", token |-> String("rustAnalyzer/cachePriming"),
                        title |-> "Indexing", percentage |-> 50])
    /\ progress_task = None
    /\ lease = None
    /\ begun = { String(s) : s \in init_progress_parts \ {LastInitPart} }
    /\ overflow_checks = FALSE
    /\ SearchIdle
    /\ TokensIdle
    /\ ToolsIdle
    /\ TasksIdle
    /\ MainIdle
    /\ IoIdle
    /\ FwdIdle
    /\ StartIdle
    /\ PureIdle
    /\ WrIdle

\* the task receives a notification; tx_evt.send(evt) publishes the event,
\* which replaces the value of the watch channel
FwdReceive ==
    \E n \in FwdNotifications :
        /\ pc = "wait_for_client" => Len(published) < MaxEvents
        /\ ReceiveStep(n)
        /\ published' =
                IF pc = "wait_for_client" /\ ProcessProgress(init_parts, running, n).ok
                THEN Append(published, ProcessProgress(init_parts, running, n).event)
                ELSE published
        /\ UNCHANGED <<lease, toolVars, searchVars, tokenVars, overflow_checks,
                       taskVars, mainVars, ioVars, fwdRest, progress_token, notified,
                       progress_counter>>

\* a tool is called, with or without a progress token: the handler enters
\* wait_for_client; events() starts at the changes to come, progress at 0
FwdCallTool ==
    \E meta \in {None, Some(McpProgressToken)} :
        /\ pc = "idle"
        /\ pc' = "wait_for_client"
        /\ progress_token' = meta
        /\ evt_unseen' = FALSE
        /\ published' = <<>>
        /\ notified' = <<>>
        /\ progress_counter' = 0
        /\ UNCHANGED <<req, lsp_sent, lsp_resp, locals, result, served, lsp_answers,
                       init_parts, running, rdy, evt, progress, progress_task, lease,
                       begun, searchVars, tokenVars, overflow_checks, taskVars,
                       mainVars, ioVars, fwdRest>>

\* stream_evt.next() yields the changed value: notify_progress, progress += 1
FwdForwardEvent ==
    /\ pc = "wait_for_client"
    /\ IsSome(progress_token)
    /\ evt_unseen
    /\ evt_unseen' = FALSE
    /\ notified' = Append(notified,
            ProgressNotificationParam(Unwrap(progress_token), progress_counter, evt))
    /\ progress_counter' = progress_counter + 1
    /\ UNCHANGED <<toolVars, init_parts, running, rdy, evt, progress, progress_task,
                   lease, begun, searchVars, tokenVars, overflow_checks, taskVars,
                   mainVars, ioVars, fwdRest, progress_token, published>>

\* the select of wait_for_client: the progress future takes an event, or the
\* wait future returns the guard and the progress future is dropped
NextForward ==
    \/ FwdReceive
    \/ SubscriptionEnds
    \/ ReceiveError
    \/ FwdCallTool
    \/ FwdForwardEvent
    \/ WaitReturns
    \/ SendRequest
    \/ ToolReturns

SpecForward == InitForward /\ [][NextForward]_vars

\* one notification per event, the counter from 0 on
Forwarded(events) ==
    [i \in 1..Len(events) |->
        ProgressNotificationParam(Unwrap(progress_token), i - 1, events[i])]

\* C31: while a tool call that supplied a progress token waits for readiness,
\* every event the progress task publishes during the wait is forwarded as
\* one progress notification, in publication order, with the counter 0, 1,
\* 2, ...; a call without a progress token sends no notification, and no
\* notification is sent after the lease has been obtained.
C31_EveryEventForwarded ==
    /\ [](pc \in {"wait_for_client", "leased"} /\ progress_token = None => notified = <<>>)
    /\ [](pc = "leased" /\ IsSome(progress_token) => notified = Forwarded(published))
    /\ [][pc = "leased" => notified' = notified]_vars

\* the notifications sent are some of the published events, in publication
\* order, numbered from 0 on, and none is sent without a token or after the
\* lease
ForwardedInOrder ==
    /\ [](progress_token = None => notified = <<>>)
    /\ [](IsSome(progress_token) =>
            /\ IsSubsequence([i \in 1..Len(notified) |-> Unwrap(notified[i].message)],
                             published)
            /\ \A i \in 1..Len(notified) :
                    /\ notified[i].progress = i - 1
                    /\ notified[i].progress_token = Unwrap(progress_token))
    /\ [][pc = "leased" => notified' = notified]_vars

(***************************************************************************)
(* SpecWriter: the background writer that spawn_writer starts              *)
(***************************************************************************)
\* most messages the forks hand to send()
MaxMessages == 3

\* the payloads of the Data messages
WriterPayloads == {<<0>>, <<255>>}

WriterMessages == { Data(b) : b \in WriterPayloads } \cup {Flush, Shutdown}

\* tokio::select! { biased; next = rx.recv() => next, _ = cancel.cancelled() => None }:
\* recv is polled first and yields the message at the head of the queue, or
\* None if the queue is empty and no sender is left; only if recv is pending
\* the cancellation is looked at
SelectBiased(channel, senders, cancelled) ==
    IF channel /= <<>> THEN [ready |-> TRUE, next |-> Some(Head(channel))]
    ELSE IF ~senders THEN [ready |-> TRUE, next |-> None]
    ELSE [ready |-> cancelled, next |-> None]

\* an operation on the file succeeds or fails with an io::Error
FileResults == {Ok, Err(ErrorMsg("io error"))}

\* a write that puts the data in front of the file's content
WriteAllFront(file, data) == [data |-> data \o file.data, flushed |-> FALSE, open |-> file.open]
\* file.write_all(&data): the file was opened with append(true)
WriteAll(file, data) == [data |-> file.data \o data, flushed |-> FALSE, open |-> file.open]
\* file.flush()
FlushFile(file) == [data |-> file.data, flushed |-> TRUE, open |-> file.open]
\* file.shutdown()
ShutdownFile(file) == [data |-> file.data, flushed |-> file.flushed, open |-> FALSE]

\* what SpecWriter leaves alone
wrFrame ==
    <<searchVars, tokenVars, overflow_checks, toolVars, guardVars, mainVars, ioVars,
      fwdVars, startVars, pureVars>>

\* spawn_writer has opened the file and spawned the task, which waits in its
\* select; the fork holds the sender
InitWriter ==
    /\ wr_pc = "select"
    /\ wr_rx = <<>>
    /\ wr_tx = TRUE
    /\ wr_file = [data |-> <<>>, flushed |-> TRUE, open |-> TRUE]
    /\ wr_res = None
    /\ wr_sent = <<>>
    /\ overflow_checks = FALSE
    /\ SearchIdle
    /\ TokensIdle
    /\ ToolsIdle
    /\ GuardIdle
    /\ TasksIdle
    /\ MainIdle
    /\ IoIdle
    /\ FwdIdle
    /\ StartIdle
    /\ PureIdle

\* a fork sends msg: self.tx.send(msg).ok(). The receiver lives as long as
\* the task's future
WriterSend(msg) ==
    /\ wr_tx
    /\ Len(wr_sent) < MaxMessages
    /\ wr_rx' = Send(wr_rx, wr_res = None, msg)
    /\ wr_sent' = Append(wr_sent, msg)
    /\ UNCHANGED <<wr_pc, wr_tx, wr_file, wr_res>>

ForkSends ==
    /\ \E msg \in WriterMessages : WriterSend(msg)
    /\ UNCHANGED <<taskVars, wrFrame>>

\* the fork is dropped, and with it the only sender
ForkDropped ==
    /\ wr_tx
    /\ wr_tx' = FALSE
    /\ UNCHANGED <<wr_pc, wr_rx, wr_file, wr_res, wr_sent, taskVars, wrFrame>>

\* TaskManager::shutdown cancels the token
TokenCancelled ==
    /\ ~cancel
    /\ cancel' = TRUE
    /\ UNCHANGED <<spawned, finished, joined, tm_pc, run_error, shutdown_res, ended,
                   wrVars, wrFrame>>

\* the task returns the error of a file operation, with its context
WriterFails(e, context) ==
    /\ wr_res' = Some(ResultContext(e, context))
    /\ wr_pc' = "done"

\* one turn of the loop: the select yields a message, which is written,
\* flushed or ends the loop, or it yields None, which ends the loop
WriterSelect ==
    /\ wr_pc = "select"
    /\ LET selected == SelectBiased(wr_rx, wr_tx, cancel)
       IN  /\ selected.ready
           /\ IF selected.next = None
              THEN /\ wr_pc' = "flush"
                   /\ UNCHANGED <<wr_rx, wr_file, wr_res>>
              ELSE /\ wr_rx' = Tail(wr_rx)
                   /\ LET msg == Unwrap(selected.next)
                      IN  CASE msg.kind = "Data" ->
                                \E io \in FileResults :
                                    IF io.ok
                                    THEN /\ wr_file' = WriteAll(wr_file, msg.data)
                                         /\ UNCHANGED <<wr_pc, wr_res>>
                                    ELSE /\ WriterFails(io, "write data")
                                         /\ UNCHANGED wr_file
                            [] msg.kind = "Flush" ->
                                \E io \in FileResults :
                                    IF io.ok
                                    THEN /\ wr_file' = FlushFile(wr_file)
                                         /\ UNCHANGED <<wr_pc, wr_res>>
                                    ELSE /\ WriterFails(io, "flush file")
                                         /\ UNCHANGED wr_file
                            [] OTHER ->
                                /\ wr_pc' = "flush"
                                /\ UNCHANGED <<wr_file, wr_res>>
    /\ UNCHANGED <<wr_tx, wr_sent, taskVars, wrFrame>>

\* after the loop: file.flush().await.context("flush file")?
WriterFlush ==
    /\ wr_pc = "flush"
    /\ \E io \in FileResults :
            IF io.ok
            THEN /\ wr_file' = FlushFile(wr_file)
                 /\ wr_pc' = "shutdown"
                 /\ UNCHANGED wr_res
            ELSE /\ WriterFails(io, "flush file")
                 /\ UNCHANGED wr_file
    /\ UNCHANGED <<wr_rx, wr_tx, wr_sent, taskVars, wrFrame>>

\* file.shutdown().await.context("shut down file")?; Ok(())
WriterShutdown ==
    /\ wr_pc = "shutdown"
    /\ \E io \in FileResults :
            IF io.ok
            THEN /\ wr_file' = ShutdownFile(wr_file)
                 /\ wr_res' = Some(Ok)
                 /\ wr_pc' = "done"
            ELSE /\ WriterFails(io, "shut down file")
                 /\ UNCHANGED wr_file
    /\ UNCHANGED <<wr_rx, wr_tx, wr_sent, taskVars, wrFrame>>

NextWriter ==
    \/ ForkSends
    \/ ForkDropped
    \/ TokenCancelled
    \/ WriterSelect
    \/ WriterFlush
    \/ WriterShutdown

SpecWriter == InitWriter /\ [][NextWriter]_vars

\* the payloads of the Data messages of msgs that come before its first
\* Shutdown, one after the other
RECURSIVE DataUntilShutdown(_)
DataUntilShutdown(msgs) ==
    IF msgs = <<>> \/ Head(msgs).kind = "Shutdown" THEN <<>>
    ELSE Head(msgs).data \o DataUntilShutdown(Tail(msgs))

IsPrefix(s, t) == Len(s) <= Len(t) /\ SubSeq(t, 1, Len(s)) = s

\* the file holds the payloads in the order sent and nothing sent after a
\* Shutdown
WrittenInOrder == IsPrefix(wr_file.data, DataUntilShutdown(wr_sent))

\* the loop ends on a Shutdown message, on a closed channel or on cancellation
LoopEndsOnShutdownClosedOrCancel ==
    (wr_pc = "select" /\ wr_pc' = "flush") =>
        \/ wr_rx /= <<>> /\ Head(wr_rx) = Shutdown
        \/ wr_rx = <<>> /\ ~wr_tx
        \/ wr_rx = <<>> /\ cancel

\* once the loop has ended nothing is taken from the channel or written
StopsConsuming ==
    wr_pc /= "select" =>
        /\ wr_file'.data = wr_file.data
        /\ IsPrefix(wr_rx, wr_rx')

\* C35 as stated: the writer appends the Data payloads in the order sent; on
\* a Shutdown message, on the channel being closed or on cancellation it
\* stops consuming, flushes and closes the file and returns success; Data
\* sent after Shutdown is never written.
C35_WriterReturnsSuccess ==
    /\ []WrittenInOrder
    /\ [][LoopEndsOnShutdownClosedOrCancel /\ StopsConsuming]_vars
    /\ [](wr_pc = "done" =>
            wr_res = Some(Ok) /\ wr_file.flushed /\ ~wr_file.open)

\* C35, amended: the same, and the task returns success with the file flushed
\* and closed unless a file operation fails: then the task returns that error
\* at once, with the context "write data", "flush file" or "shut down file".
C35_WriterReturnsSuccessOrFileError ==
    /\ []WrittenInOrder
    /\ [][LoopEndsOnShutdownClosedOrCancel /\ StopsConsuming]_vars
    /\ [](wr_pc = "done" =>
            \/ wr_res = Some(Ok) /\ wr_file.flushed /\ ~wr_file.open
            \/ /\ wr_res \in { Some(Err(<<context, "io error">>)) :
                                context \in {"write data", "flush file", "shut down file"} }
               /\ wr_file.open)

\* a Shutdown between two Data messages: the writer has returned success and
\* the file holds the first payload only
C35_Witness ==
    /\ wr_pc = "done"
    /\ wr_res = Some(Ok)
    /\ wr_sent = <<Data(<<0>>), Shutdown, Data(<<255>>)>>
    /\ wr_file = [data |-> <<0>>, flushed |-> TRUE, open |-> FALSE]

(***************************************************************************)
(* SpecCancel: a TaskManager with a writer and the progress task, and its  *)
(* shutdown()                                                              *)
(***************************************************************************)
\* spawn_lsp has spawned a writer and ProgressGuard::start the progress
\* task; both run
InitCancel ==
    /\ spawned = {WriterTask, ProgressTask}
    /\ finished = <<>>
    /\ joined = <<>>
    /\ cancel = FALSE
    /\ tm_pc = "idle"
    /\ run_error = None
    /\ shutdown_res = Ok
    /\ ended = <<>>
    /\ wr_pc = "select"
    /\ wr_rx = <<>>
    /\ wr_tx = TRUE
    /\ wr_file = [data |-> <<>>, flushed |-> TRUE, open |-> TRUE]
    /\ wr_res = None
    /\ wr_sent = <<>>
    /\ init_parts = init_progress_parts
    /\ running = {}
    /\ rdy = InitialReady
    /\ evt = ""
    /\ evt_unseen = FALSE
    /\ progress = None
    /\ progress_task = None
    /\ lease = None
    /\ begun = {}
    /\ overflow_checks = FALSE
    /\ SearchIdle
    /\ TokensIdle
    /\ ToolsIdle
    /\ MainIdle
    /\ IoIdle
    /\ FwdIdle
    /\ StartIdle
    /\ PureIdle

\* the future of the writer has returned: its task completes
WriterCompletes ==
    /\ wr_pc = "done"
    /\ TaskEnds(WriterTask, IF Unwrap(wr_res).ok THEN Returned
                            ELSE Failed(Unwrap(wr_res).err))
    /\ UNCHANGED <<wrVars, guardVars, mainVars, searchVars, tokenVars, overflow_checks,
                   toolVars, ioVars, fwdVars, startVars, pureVars>>

NextCancel ==
    \/ ForkSends
    \/ ForkDropped
    \/ WriterSelect
    \/ WriterFlush
    \/ WriterShutdown
    \/ WriterCompletes
    \/ MainReceiveProgress
    \/ SubscriptionEnds
    \/ ReceiveError
    \/ ProgressTaskEnds
    \/ CallShutdown
    \/ ShutdownJoins
    \/ ShutdownReturns

SpecCancel == InitCancel /\ [][NextCancel]_vars

\* the runtime runs every task that can make a step, and shutdown() goes on
\* when join_next has a result; what the forks send and what the language
\* server sends or closes is not up to the program
SpecCancelFair ==
    /\ SpecCancel
    /\ WF_vars(WriterSelect)
    /\ WF_vars(WriterFlush)
    /\ WF_vars(WriterShutdown)
    /\ WF_vars(WriterCompletes)
    /\ WF_vars(ProgressTaskEnds)
    /\ WF_vars(ShutdownJoins)
    /\ WF_vars(ShutdownReturns)

\* C32: every supervised task receives the same cancellation signal, and
\* once shutdown() has signalled it every supervised task, the writers and
\* the progress task, eventually terminates, so that shutdown() eventually
\* returns.
C32_CancelTerminatesAllTasks ==
    /\ cancel ~> (spawned = {})
    /\ cancel ~> (tm_pc = "shutdown_returned")

\* once cancelled the writer terminates
WriterTerminates == cancel ~> (WriterTask \notin spawned)

(***************************************************************************)
(* SpecTasks: a panic of one task and the other tasks                      *)
(***************************************************************************)
\* a step in which the future of a task panics
PanicStep ==
    /\ Len(ended') = Len(ended) + 1
    /\ ended'[Len(ended')].outcome.kind = "Panic"

\* C33: a panic inside one supervised task is caught and turned into that
\* task's error result; it does not end the process and does not stop or
\* cancel the other supervised tasks, which keep running until they finish
\* by themselves or shutdown() cancels them.
C33_PanicIsContained ==
    /\ [][PanicStep =>
            LET e == ended'[Len(ended')]
                r == finished'[Len(finished')]
            IN  /\ Len(finished') = Len(finished) + 1
                /\ r.name = e.name
                /\ ~r.res.ok
                /\ Len(r.res.err) >= 2
                /\ r.res.err[1] = "task " \o e.name
                /\ r.res.err[2] = "panic"
                /\ spawned' = spawned \ {e.name}
                /\ cancel' = cancel
                /\ tm_pc' = tm_pc]_vars
    /\ [][cancel' /= cancel => tm_pc /= "shutdown" /\ tm_pc' = "shutdown"]_vars
    /\ [][spawned' /= spawned => Len(ended') = Len(ended) + 1]_vars

\* one task has panicked and the other one has returned by itself later, with
\* the token not cancelled
C33_Witness ==
    /\ Len(ended) = 2
    /\ ended[1].outcome = Panicked("String", "foo hello")
    /\ ended[2].outcome = Returned
    /\ ~cancel
    /\ spawned = {}

(***************************************************************************)
(* SpecIo: what the forks return to their callers                          *)
(***************************************************************************)
\* C34: what poll_write, poll_flush, poll_shutdown and poll_read of a fork
\* return is exactly the inner stream's result (pending, the error, or
\* success with the same byte count), whether or not the send to the tee
\* channel succeeds, and the fork never waits for the writer task: every
\* poll can be made whatever the writer has taken from its channel.
C34_ForkReturnsInnerResult ==
    /\ [][io_op' /= io_op => io_ret' = Some(Unwrap(io_op').polled)]_vars
    /\ [](Unwrap(io_op).n < MaxCalls =>
            /\ ENABLED PollWrite
            /\ ENABLED PollFlush
            /\ ENABLED PollShutdown
            /\ ENABLED PollRead)

\* the writer of the WriteFork has ended; the inner stream has then taken
\* one byte of two and the caller got Ok(1), with nothing sent to the file
C34_Witness ==
    /\ "write" \notin io_rx
    /\ Unwrap(io_op) = Call(1, "poll_write", <<0, 255>>, Poll("Ok", 1))
    /\ io_ret = Some(Poll("Ok", 1))
    /\ io_tee.write = <<>>

(***************************************************************************)
(* SpecTee: the select of main_async with the writer of an intercepted     *)
(* stream, up to the start of the shutdown sequence                        *)
(***************************************************************************)
\* main_async enters its select with the progress task and one writer, which
\* waits in its select
InitTee ==
    /\ main_pc = "select"
    /\ inner_pc = "init_lsp"
    /\ inner_res = Ok
    /\ service = "none"
    /\ fuse = FALSE
    /\ sigterm = FALSE
    /\ main_res = Ok
    /\ outcomes = <<>>
    /\ trace = <<>>
    /\ exit_code = None
    /\ init_resp = None
    /\ spawned = {ProgressTask, WriterTask}
    /\ finished = <<>>
    /\ joined = <<>>
    /\ cancel = FALSE
    /\ tm_pc = "run"
    /\ run_error = None
    /\ shutdown_res = Ok
    /\ ended = <<>>
    /\ wr_pc = "select"
    /\ wr_rx = <<>>
    /\ wr_tx = TRUE
    /\ wr_file = [data |-> <<>>, flushed |-> TRUE, open |-> TRUE]
    /\ wr_res = None
    /\ wr_sent = <<>>
    /\ init_parts = init_progress_parts
    /\ running = {}
    /\ rdy = InitialReady
    /\ evt = ""
    /\ evt_unseen = FALSE
    /\ progress = None
    /\ progress_task = None
    /\ lease = None
    /\ begun = {}
    /\ overflow_checks = FALSE
    /\ SearchIdle
    /\ TokensIdle
    /\ ToolsIdle
    /\ IoIdle
    /\ FwdIdle
    /\ StartIdle
    /\ PureIdle

\* the stream is written to or shut down: its fork sends Data or Shutdown
TeeForkSends ==
    /\ \E msg \in {Data(<<0>>), Shutdown} : WriterSend(msg)
    /\ UNCHANGED <<taskVars, wrFrame>>

NextTee ==
    \/ TeeForkSends
    \/ ForkDropped
    \/ WriterSelect
    \/ WriterFlush
    \/ WriterShutdown
    \/ WriterCompletes
    \/ SubscriptionEnds
    \/ ReceiveError
    \/ ProgressTaskEnds
    \/ InitLsp
    \/ StartService
    \/ ServiceQuits
    \/ Sigterm
    \/ InnerSelectSignal
    \/ InnerSelectService
    \/ AwaitService
    \/ SelectMain
    \/ SelectTasks

SpecTee == InitTee /\ [][NextTee]_vars

\* the runtime polls the select of main_async when one of its futures can
\* go on, and runs the writer
SpecTeeFair ==
    /\ SpecTee
    /\ WF_vars(WriterSelect)
    /\ WF_vars(WriterFlush)
    /\ WF_vars(WriterShutdown)
    /\ WF_vars(WriterCompletes)
    /\ WF_vars(SelectMain)
    /\ WF_vars(SelectTasks)

\* the writer has returned normally and its result is the one join_next
\* yields next
WriterReturnedFirst ==
    /\ finished /= <<>>
    /\ Head(finished) = TaskResult(WriterTask, Returned)

\* Err(e).context("tasks") for the error run() makes of a normal return
ReturnedEarly == Err(<<"tasks", "task '" \o WriterTask \o "' returned early">>)

\* the select of main_async completes
LeavesSelect == main_pc = "select" /\ main_pc' = "dismantle"

MaxNotifications == 2

\* the tokens the server has begun and not ended
RECURSIVE ServerRunning(_)
ServerRunning(sent) ==
    IF sent = <<>> THEN {}
    ELSE LET before == ServerRunning(SubSeq(sent, 1, Len(sent) - 1))
             last == sent[Len(sent)]
         IN  CASE last.kind = "Begin" -> before \cup {last.token}
               [] last.kind = "End" -> before \ {last.token}
               [] OTHER -> before

\* ProgressGuard::start has spawned the task, which has not run yet, and
\* main_async has entered its select: main_inner is about to call init_lsp
InitStartup ==
    /\ sub_pc = "spawned"
    /\ emitted = <<>>
    /\ missed = <<>>
    /\ main_pc = "select"
    /\ inner_pc = "init_lsp"
    /\ inner_res = Ok
    /\ service = "none"
    /\ fuse = FALSE
    /\ sigterm = FALSE
    /\ main_res = Ok
    /\ outcomes = <<>>
    /\ trace = <<>>
    /\ exit_code = None
    /\ init_resp = None
    /\ spawned = {ProgressTask}
    /\ finished = <<>>
    /\ joined = <<>>
    /\ cancel = FALSE
    /\ tm_pc = "run"
    /\ run_error = None
    /\ shutdown_res = Ok
    /\ ended = <<>>
    /\ init_parts = init_progress_parts
    /\ running = {}
    /\ rdy = InitialReady
    /\ evt = ""
    /\ evt_unseen = FALSE
    /\ progress = None
    /\ progress_task = None
    /\ lease = None
    /\ begun = {}
    /\ overflow_checks = FALSE
    /\ SearchIdle
    /\ TokensIdle
    /\ ToolsIdle
    /\ IoIdle
    /\ FwdIdle
    /\ WrIdle
    /\ PureIdle

\* the task runs: client.subscribe_to_method::<Progress>().await registers
\* the subscription, or fails and the task returns the error
Subscribe ==
    /\ sub_pc = "spawned"
    /\ \E subscription \in IoResults("connection closed") :
        IF subscription.ok
        THEN sub_pc' = "subscribed" /\ UNCHANGED progress_task
        ELSE /\ sub_pc' = "failed"
             /\ progress_task' = Some([ok |-> FALSE, err |-> "subscribe to 'progress'"])
    /\ UNCHANGED <<init_parts, running, rdy, evt, evt_unseen, progress, lease, begun,
                   emitted, missed, searchVars, tokenVars, overflow_checks, toolVars,
                   taskVars, mainVars, ioVars, fwdVars, wrVars, pureVars>>

\* the server, which has got the initialize request, sends a notification
\* of work it has begun or begins: the subscribed task takes it, and without
\* a subscription it reaches nobody
ServerEmits ==
    /\ IsSome(init_resp)
    /\ Len(emitted) < MaxNotifications
    /\ \E n \in MainNotifications :
        /\ (n.kind = "Begin") = (n.token \notin ServerRunning(emitted))
        /\ emitted' = Append(emitted, n)
        /\ CASE sub_pc = "spawned" ->
                    /\ missed' = Append(missed, n)
                    /\ UNCHANGED guardVars
             [] sub_pc = "subscribed" /\ progress_task = None ->
                    /\ ReceiveStep(n)
                    /\ UNCHANGED <<lease, missed>>
             [] OTHER -> UNCHANGED <<guardVars, missed>>
    /\ UNCHANGED <<sub_pc, searchVars, tokenVars, overflow_checks, toolVars, taskVars,
                   mainVars, ioVars, fwdVars, wrVars, pureVars>>

NextStartup ==
    \/ Subscribe
    \/ InitLsp
    \/ ServerEmits

SpecStartup == InitStartup /\ [][NextStartup]_vars

\* C37: no $/progress notification is missed by the progress task: its
\* subscription is registered before the initialize request is sent, and so
\* before the server can emit a Begin, and the running set never sees an End
\* whose Begin the server has emitted but the task has not got.
C37_SubscribedBeforeInitialize ==
    /\ IsSome(init_resp) => sub_pc /= "spawned"
    /\ missed = <<>>
    /\ IsSome(progress_task) =>
            Unwrap(progress_task).err /= "Progress end without start: " \o DebugToken(Number(1))

(***************************************************************************)
(* SpecBits: TokenModifers::iter and BitIter                               *)
(***************************************************************************)
\* what SpecBits and SpecChain leave alone
pureFrame ==
    <<searchVars, tokenVars, overflow_checks, toolVars, guardVars, taskVars, mainVars,
      ioVars, fwdVars, wrVars, startVars>>

\* BitIter::new(bitset): the field bitset_remaining
BitIterNew(bitset) == bitset

\* BitIter::next: the item and the field bitset_remaining after the call
BitIterNext(bitset_remaining) ==
    IF bitset_remaining = 0
    THEN [item |-> None, bitset_remaining |-> bitset_remaining]
    ELSE LET found_bit == (bitset_remaining % 2) /= 0
         IN  [item |-> Some(found_bit), bitset_remaining |-> bitset_remaining \div 2]

\* u32::leading_zeros of a value that fits into the lowest n bits, counted
\* over those n bits
RECURSIVE LeadingZerosIn(_, _)
LeadingZerosIn(x, n) ==
    IF n = 0 \/ x >= Pow2(n - 1) THEN 0 ELSE 1 + LeadingZerosIn(x, n - 1)

leading_zeros(x) == LeadingZerosIn(x, U32Bits)

\* u32::count_ones
RECURSIVE count_ones(_)
count_ones(x) == IF x = 0 THEN 0 ELSE (x % 2) + count_ones(x \div 2)

\* a size_hint that counts the bits that are set
BitIterSizeHintSetBits(bitset_remaining) ==
    LET h == count_ones(bitset_remaining)
    IN  <<h, Some(h)>>

\* BitIter::size_hint
BitIterSizeHint(bitset_remaining) ==
    LET h == U32Bits - leading_zeros(bitset_remaining)
    IN  <<h, Some(h)>>

\* TokenModifers::iter collected: legend.iter().zip(BitIter::new(bitset))
\* .filter(|(_m, bit)| *bit).map(|(m, _)| m). Zip asks the legend first and
\* ends with the side that ends first.
RECURSIVE ZipFilterMap(_, _)
ZipFilterMap(legend, bitset_remaining) ==
    IF legend = <<>> THEN <<>>
    ELSE LET n == BitIterNext(bitset_remaining)
         IN  IF n.item = None THEN <<>>
             ELSE (IF Unwrap(n.item) THEN <<Head(legend)>> ELSE <<>>)
                  \o ZipFilterMap(Tail(legend), n.bitset_remaining)

ModifiersIter(legend, bitset) == ZipFilterMap(legend, BitIterNew(bitset))

\* the legends: the server's list of modifiers, cut after any entry
Legends == {SubSeq(token_modifiers, 1, k) : k \in 0..Len(token_modifiers)}

\* a TokenModifers of any legend and any bitset, and a BitIter made of the
\* same bitset, asked for its size_hint
InitBits ==
    /\ bi_legend \in Legends
    /\ bi_bitset \in 0..U32Max
    /\ bi_remaining = BitIterNew(bi_bitset)
    /\ bi_yielded = <<>>
    /\ bi_hints = <<BitIterSizeHint(bi_remaining)>>
    /\ bi_modifiers = None
    /\ fe_chain = <<>>
    /\ fe_out = None
    /\ overflow_checks = FALSE
    /\ SearchIdle
    /\ TokensIdle
    /\ ToolsIdle
    /\ GuardIdle
    /\ TasksIdle
    /\ MainIdle
    /\ IoIdle
    /\ FwdIdle
    /\ WrIdle
    /\ StartIdle

\* next() is called, up to the first None, and size_hint() after it
BitNext ==
    /\ bi_hints /= <<>>
    /\ IF bi_yielded = <<>> THEN TRUE ELSE bi_yielded[Len(bi_yielded)] /= None
    /\ LET n == BitIterNext(bi_remaining)
       IN  /\ bi_remaining' = n.bitset_remaining
           /\ bi_yielded' = Append(bi_yielded, n.item)
           /\ bi_hints' = Append(bi_hints, BitIterSizeHint(n.bitset_remaining))
    /\ UNCHANGED <<bi_legend, bi_bitset, bi_modifiers, fe_chain, fe_out, pureFrame>>

\* iter() is collected
CollectModifiers ==
    /\ bi_hints /= <<>>
    /\ bi_modifiers = None
    /\ bi_modifiers' = Some(ModifiersIter(bi_legend, bi_bitset))
    /\ UNCHANGED <<bi_legend, bi_bitset, bi_remaining, bi_yielded, bi_hints, fe_chain,
                   fe_out, pureFrame>>

NextBits ==
    \/ BitNext
    \/ CollectModifiers

SpecBits == InitBits /\ [][NextBits]_vars

\* whether bit i (0 the least significant) of bitset is set
BitSet(bitset, i) == (bitset \div Pow2(i)) % 2 = 1

\* one more than the position of the highest bit set, 0 for no bit
HighestBit(bitset) ==
    IF bitset = 0 THEN 0
    ELSE 1 + CHOOSE i \in 0..(U32Bits - 1) :
                /\ BitSet(bitset, i)
                /\ \A j \in (i + 1)..(U32Bits - 1) : ~BitSet(bitset, j)

\* legend[i] for the bits i below n that are set, in increasing i
RECURSIVE LegendOfBits(_, _, _)
LegendOfBits(legend, bitset, n) ==
    IF n = 0 THEN <<>>
    ELSE LegendOfBits(legend, bitset, n - 1)
         \o (IF BitSet(bitset, n - 1) THEN <<legend[n]>> ELSE <<>>)

\* the items next() has returned that are bits
YieldedBits == SelectSeq(bi_yielded, LAMBDA item : item /= None)

\* C38: iter() yields exactly legend[i] for the i below the legend length
\* whose bit is set, in increasing i, whatever bits are set at or above the
\* legend length; BitIter yields the bits from the least significant one up
\* to the highest bit set and then None; and each size_hint is the number of
\* bits still to be yielded, as lower and as upper bound.
C38_ModifiersOfSetBits ==
    /\ IsSome(bi_modifiers) =>
            /\ Unwrap(bi_modifiers) = LegendOfBits(bi_legend, bi_bitset, Len(bi_legend))
            /\ Unwrap(bi_modifiers) =
                    LegendOfBits(bi_legend, bi_bitset % Pow2(Len(bi_legend)), Len(bi_legend))
    /\ \A k \in 1..Len(bi_yielded) :
            IF k <= HighestBit(bi_bitset)
            THEN bi_yielded[k] = Some(BitSet(bi_bitset, k - 1))
            ELSE bi_yielded[k] = None
    /\ Len(YieldedBits) <= HighestBit(bi_bitset)
    /\ \A k \in 1..Len(bi_hints) :
            LET left == IF k - 1 <= HighestBit(bi_bitset)
                        THEN HighestBit(bi_bitset) - (k - 1)
                        ELSE 0
            IN  bi_hints[k] = <<left, Some(left)>>

\* bitset 0b110 with a legend of two modifiers: the iterator has yielded
\* false, true, true and None with the hints 3, 2, 1, 0, 0, and iter() gave
\* the second modifier only, bit 2 being beyond the legend
C38_Witness ==
    /\ bi_bitset = 6
    /\ bi_legend = token_modifiers
    /\ bi_yielded = <<Some(FALSE), Some(TRUE), Some(TRUE), None>>
    /\ bi_hints = <<<<3, Some(3)>>, <<2, Some(2)>>, <<1, Some(1)>>, <<0, Some(0)>>,
                    <<0, Some(0)>>>>
    /\ bi_modifiers = Some(<<token_modifiers[2]>>)

(***************************************************************************)
(* SpecChain: format_error_chain                                           *)
(***************************************************************************)
\* the longest chain of errors
MaxChain == 3

\* the messages of the errors, as sequences of characters
ErrorTexts == {<<>>, <<"a">>, <<"b">>, <<"c">>, <<"a", "b">>}

\* TextError { msg, source, display_source } without its source
TextErrors == [msg : ErrorTexts, display_source : BOOLEAN]

\* ": "
ChainSep == <<":", " ">>

\* a check that never finds the text at the end
EndsWithNever(s, e_str) == FALSE

\* str::ends_with
EndsWith(s, e_str) ==
    IF e_str = <<>> THEN TRUE
    ELSE /\ Len(e_str) <= Len(s)
         /\ \A j \in 1..Len(e_str) : s[Len(s) - Len(e_str) + j] = e_str[j]

\* Display of TextError, chain being the error followed by its sources:
\* the msg and, with display_source and a source, ": {source}"
RECURSIVE TextErrorDisplay(_)
TextErrorDisplay(chain) ==
    chain[1].msg
    \o (IF chain[1].display_source /\ Len(chain) > 1
        THEN ChainSep \o TextErrorDisplay(Tail(chain))
        ELSE <<>>)

\* the loop of format_error_chain: maybe_e is the error to visit followed by
\* its sources (empty for None), s the string built so far
RECURSIVE FormatLoop(_, _)
FormatLoop(maybe_e, s) ==
    IF maybe_e = <<>> THEN s
    ELSE LET e_str == TextErrorDisplay(maybe_e)
             pushed == IF ~EndsWith(s, e_str)
                       THEN (IF s /= <<>> THEN s \o ChainSep ELSE s) \o e_str
                       ELSE s
         IN  FormatLoop(Tail(maybe_e), pushed)

format_error_chain(e) == FormatLoop(e, <<>>)

\* TextError::new(msg), with display_source() or without
InitChain ==
    /\ fe_chain \in {<<e>> : e \in TextErrors}
    /\ fe_out = None
    /\ bi_legend = <<>>
    /\ bi_bitset = 0
    /\ bi_remaining = 0
    /\ bi_yielded = <<>>
    /\ bi_hints = <<>>
    /\ bi_modifiers = None
    /\ overflow_checks = FALSE
    /\ SearchIdle
    /\ TokensIdle
    /\ ToolsIdle
    /\ GuardIdle
    /\ TasksIdle
    /\ MainIdle
    /\ IoIdle
    /\ FwdIdle
    /\ WrIdle
    /\ StartIdle

\* parent.with_source(e): the error built so far becomes the source of a
\* new error
WithSource ==
    /\ fe_out = None
    /\ Len(fe_chain) < MaxChain
    /\ \E parent \in TextErrors : fe_chain' = <<parent>> \o fe_chain
    /\ UNCHANGED <<fe_out, bi_legend, bi_bitset, bi_remaining, bi_yielded, bi_hints,
                   bi_modifiers, pureFrame>>

\* internal(): the error is formatted
FormatErrorChain ==
    /\ fe_out = None
    /\ fe_chain /= <<>>
    /\ fe_out' = Some(format_error_chain(fe_chain))
    /\ UNCHANGED <<fe_chain, bi_legend, bi_bitset, bi_remaining, bi_yielded, bi_hints,
                   bi_modifiers, pureFrame>>

NextChain ==
    \/ WithSource
    \/ FormatErrorChain

SpecChain == InitChain /\ [][NextChain]_vars

\* text occurs in s as a run of adjacent characters
OccursIn(text, s) ==
    \E i \in 0..(Len(s) - Len(text)) : \A j \in 1..Len(text) : s[i + j] = text[j]

\* the display text of the k-th error of the chain, 1 the outermost
DisplayAt(chain, k) == TextErrorDisplay(SubSeq(chain, k, Len(chain)))

\* the messages of the chain from the outermost to the innermost, joined
\* with ": "
RECURSIVE JoinMsgs(_)
JoinMsgs(chain) ==
    IF Len(chain) = 1 THEN chain[1].msg
    ELSE chain[1].msg \o ChainSep \o JoinMsgs(Tail(chain))

\* every message is one character and no two errors have the same: no
\* display text ends another one by coincidence
DistinctLetters(chain) ==
    /\ \A k \in 1..Len(chain) : Len(chain[k].msg) = 1
    /\ \A k, l \in 1..Len(chain) : k /= l => chain[k].msg /= chain[l].msg

\* C39: the result starts with the text of the outermost error and every
\* error's display text occurs in it; when the errors have distinct
\* one-letter messages, it is the messages from the outermost to the
\* innermost joined with ": ", each once, whichever parents print their
\* sources; and an error is left out only when its text is at the end of
\* the message built so far.
C39_ChainJoinedOnce ==
    IsSome(fe_out) =>
        LET s == Unwrap(fe_out)
            first == DisplayAt(fe_chain, 1)
        IN  /\ Len(first) <= Len(s)
            /\ \A j \in 1..Len(first) : s[j] = first[j]
            /\ \A k \in 1..Len(fe_chain) : OccursIn(DisplayAt(fe_chain, k), s)
            /\ DistinctLetters(fe_chain) => s = JoinMsgs(fe_chain)
            /\ (\A k \in 1..Len(fe_chain) : ~fe_chain[k].display_source /\ fe_chain[k].msg /= <<>>)
               /\ s /= JoinMsgs(fe_chain)
                    => \E k \in 2..Len(fe_chain) :
                            EndsWith(JoinMsgs(SubSeq(fe_chain, 1, k - 1)), fe_chain[k].msg)

\* "a" prints its source "b", which has the source "c": the result is
\* "a: b: c", with "b" once
C39_Witness ==
    /\ fe_chain = <<[msg |-> <<"a">>, display_source |-> TRUE],
                    [msg |-> <<"b">>, display_source |-> FALSE],
                    [msg |-> <<"c">>, display_source |-> FALSE]>>
    /\ fe_out = Some(<<"a", ":", " ", "b", ":", " ", "c">>)

====
